---- MODULE Spec2Model ----
(***************************************************************************)
(* Model of the voice-agent page of omni-order-ui                         *)
(* (app/voice-agent/page.tsx): the conversation state machine, the        *)
(* inbound protocol dispatcher, the playback pipeline and the capture     *)
(* pipeline with its send gate.  Every handler of the page is one action; *)
(* the continuation of an awaited call (getUserMedia, resume,             *)
(* decodeAudioData) is an action of its own, since the event loop may run *)
(* other handlers while the promise is pending.                           *)
(***************************************************************************)
EXTENDS Integers, Sequences, FiniteSets, TLC

\* ------------------------------------------------------------------ bounds
\* startConversation calls holding a resource (a pending getUserMedia, a live
\* stream, a connected processor) at one time
MaxStarts == 2
\* playAudio calls in flight (pending or playing) at one time
MaxPlays == 2
\* AudioContext objects open at one time
MaxCtx == 2
\* inbound messages the runtime holds before ws.onmessage runs for them
MaxInbox == 2
\* audio frames recorded on the channel in one run
MaxFrames == 3
\* steps of the clock beyond StartTime
MaxTicks == 4
\* granularity of the clock, in ms
Tick == 50
\* entries of the transcript in one run
MaxMessages == 2
\* restaurants in the result of one function call
MaxList == 2
\* addMarker calls in one run
MaxCalls == 2
\* map objects handed to setMap in one run
MaxMaps == 2
\* samples in one audio block
MaxSamples == 2

\* ------------------------------------------------------- program constants
sendInterval == 100

\* Date.now() is far beyond sendInterval when the page runs
StartTime == sendInterval
MaxTime == StartTime + MaxTicks * Tick

\* ------------------------------------------------------------------- state
VARIABLES
    status,                 \* useState<ConversationState>
    isConnected,            \* useState(false)
    isConversationActive,   \* useState(false)
    selectedMicrophone,     \* TRUE when a device id is selected ('' is FALSE)
    micLoad,                \* loadMicrophones: "pending" | "done"
    ws,                     \* wsRef.current.readyState
    isRecordingRef,         \* isRecordingRef.current
    processorRef,           \* processorRef.current: 0 (null) or a start id
    mediaStreamRef,         \* mediaStreamRef.current: 0 (null) or a start id
    audioContextRef,        \* audioContextRef.current: 0 (null) or a context id
    contexts,               \* the AudioContext objects: "free" (none, or closed and
                            \* released), "running" or "suspended"
    starts,                 \* the startConversation calls that hold a resource: the
                            \* pending getUserMedia, the stream, the processor
    plays,                  \* the playAudio calls in flight, oldest first; `overtaken`
                            \* records that a later call started its source first
    overlapped,             \* TRUE once playAudio was called while an earlier call
                            \* was still in flight (pending or playing)
    debugLog,               \* the newest entry of debugLog
    uncaught,               \* TRUE once a handler has thrown an uncaught exception
    sent,                   \* the JSON messages that the handler that wrote last
                            \* handed to the open channel, in order
    inbox,                  \* message events queued by the runtime for ws.onmessage
    messages,               \* useState<Message[]>: the transcript, <<type, content>>
    markerCalls,            \* the parameters of the addMarker calls made, oldest first
    mapRef,                 \* useRef<google.maps.Map | null>: 0 is null
    markersRef,             \* useRef<Map<MarkerId, google.maps.Marker>>: id -> marker
    markerObjs,             \* the google.maps.Marker objects constructed, oldest first
    infoWindowsRef,         \* useRef<Map<MarkerId, google.maps.InfoWindow>>: id ->
                            \* content of its info window, "" for an id without one
    pendingRef,             \* useRef<AddMarkerParams[]>
    removed,                \* history: the ids whose marker, info window or queued
                            \* requests a removeMarker call dropped, or that a
                            \* clearMarkers call covered, and that no addMarker
                            \* call has named since
    orderSummary,           \* useState('')
    showConfirmOrderButton, \* useState(false)
    now,                    \* Date.now()
    frames,                 \* audio frames written to the channel, oldest first:
                            \* <<id of the start whose processor sent it, time>>; the
                            \* id is 0 once that processor is disconnected
    inputBuffer,            \* e.inputBuffer.getChannelData(0) of the next audio block
    pcmData                 \* the Int16Array written to the channel last

pageVars == <<status, isConnected, isConversationActive, selectedMicrophone, micLoad, ws>>
captureVars == <<isRecordingRef, processorRef, mediaStreamRef, starts>>
audioVars == <<audioContextRef, contexts>>
clockVars == <<now, frames>>
pcmVars == <<inputBuffer, pcmData>>
mapVars == <<mapRef, markersRef, markerObjs, infoWindowsRef, pendingRef, removed>>
uiVars == <<messages, markerCalls, orderSummary, showConfirmOrderButton, mapVars>>
vars == <<pageVars, captureVars, audioVars, plays, overlapped, debugLog, uncaught, sent,
          inbox, clockVars, pcmVars, uiVars>>

\* ------------------------------------------------------------ samples
\* A Float32 sample is the fraction <<numerator, denominator>>: a number has
\* a positive denominator, <<1, 0>> is Infinity, <<-1, 0>> is -Infinity and
\* <<0, 0>> is NaN.  Every product below is exact in a double (a Float32 has
\* 24 significant bits, the factors 15 and 16).
Den == 12

NaN == <<0, 0>>

Zero == <<0, Den>>

\* The numerators of the samples: beyond -1, -1, -1/3, -1/12, 0, 1/12, 1/4,
\* 1 and beyond 1.
Nums == {-18, -12, -4, -1, 0, 1, 3, 12, 18}

Floats == {<<n, Den>> : n \in Nums} \cup {<<1, 0>>, <<-1, 0>>, NaN}

\* e.inputBuffer.getChannelData(0)
Buffers == UNION {[1..n -> Floats] : n \in 1..MaxSamples}

ConversationState == {"idle", "listening", "processing", "speaking", "error"}

MsgTypes ==
    {"connected", "conversation_started", "conversation_stopped", "speech_started",
     "user_speech", "agent_processing", "agent_response", "system_response",
     "agent_speaking", "function_call", "approval_request", "interim_transcript",
     "error"}

\* data.audio: absent or empty, a decodable buffer, an undecodable buffer
Audio == {"none", "good", "bad"}

\* data.function of a function_call; "other" is a name the switch has no case for
Functions ==
    {"store_dietary_preferences", "store_budget_info", "search_restaurants",
     "pick_restaurants", "confirm_order", "other"}

\* The entries of data.result.restaurants: name, lat and lng.  Two entries
\* share a name and differ in their position.
Restaurants ==
    {[name |-> "r1", lat |-> 1, lng |-> 2], [name |-> "r1", lat |-> 2, lng |-> 1],
     [name |-> "r2", lat |-> 1, lng |-> 2]}

\* data.result.restaurants
Lists == UNION {[1..n -> Restaurants] : n \in 0..MaxList}

\* data.result.order_summary
Summaries == {"s1", "s2"}

\* data.transcript of a user_speech, data.response of an agent_response or a
\* system_response
Texts == {"t1", "t2"}

\* `success` is data.result && data.result.success of a function_call; the
\* result of a successful search_restaurants or pick_restaurants carries the
\* restaurants or lacks them, the one of a successful confirm_order carries
\* the order summary.
Messages ==
    [type : MsgTypes \ {"agent_speaking", "function_call", "user_speech",
                         "agent_response", "system_response"}, audio : {"none"}]
        \cup [type : {"user_speech"}, audio : {"none"}, transcript : Texts]
        \cup [type : {"agent_response", "system_response"}, audio : {"none"},
               response : Texts]
        \cup [type : {"agent_speaking"}, audio : Audio]
        \cup [type : {"function_call"}, audio : {"none"}, function : Functions,
               success : {FALSE}]
        \cup [type : {"function_call"}, audio : {"none"},
               function : {"store_dietary_preferences", "store_budget_info", "other",
                           "search_restaurants", "pick_restaurants"},
               success : {TRUE}]
        \cup [type : {"function_call"}, audio : {"none"},
               function : {"search_restaurants", "pick_restaurants"},
               success : {TRUE}, restaurants : Lists]
        \cup [type : {"function_call"}, audio : {"none"}, function : {"confirm_order"},
               success : {TRUE}, summary : Summaries]

\* A message of type t that carries nothing else.
Msg(t) == [type |-> t, audio |-> "none"]

\* The messages that neither call updateStatus nor playAudio.
Silent == {m \in Messages : m.type \in
            {"connected", "user_speech", "agent_response", "system_response",
             "function_call", "approval_request", "interim_transcript"}}

\* The messages whose handling touches neither the transcript, nor the map,
\* nor the order summary and its button.
Control ==
    {m \in Messages :
        /\ m.type \notin {"user_speech", "agent_response", "system_response"}
        /\ m.type = "function_call" => (~m.success \/ m.function = "other")}

\* A slot of `starts` that holds nothing.
NoStart == [phase |-> "free", stream |-> "none", proc |-> "none", ctx |-> 0,
            lastSendTime |-> 0]

Init ==
    /\ status = "idle"
    /\ isConnected = FALSE
    /\ isConversationActive = FALSE
    /\ selectedMicrophone = FALSE
    /\ micLoad = "pending"
    /\ ws = "CONNECTING"
    /\ isRecordingRef = FALSE
    /\ processorRef = 0
    /\ mediaStreamRef = 0
    /\ audioContextRef = 0
    /\ contexts = [c \in 1..MaxCtx |-> "free"]
    /\ starts = [i \in 1..MaxStarts |-> NoStart]
    /\ plays = << >>
    /\ overlapped = FALSE
    /\ debugLog = ""
    /\ uncaught = FALSE
    /\ sent = << >>
    /\ inbox = << >>
    /\ now = StartTime
    /\ frames = << >>
    /\ inputBuffer = <<Zero>>
    /\ pcmData = << >>
    /\ messages = << >>
    /\ markerCalls = << >>
    /\ mapRef = 0
    /\ markersRef = [id \in {"restaurant-" \o r.name : r \in Restaurants} |-> 0]
    /\ markerObjs = << >>
    /\ infoWindowsRef = [id \in {"restaurant-" \o r.name : r \in Restaurants} |-> ""]
    /\ pendingRef = << >>
    /\ removed = {}
    /\ orderSummary = ""
    /\ showConfirmOrderButton = FALSE


\* updateStatus with its two arguments exchanged in the call of setStatus: the
\* status text lands in the state.
updateStatusText(state) ==
    status' = CASE state = "listening" -> "Listening..."
                [] state = "processing" -> "Agent thinking..."
                [] state = "speaking" -> "Agent speaking..."
                [] OTHER -> state

\* ---------------------------------------------------------------- helpers
\* updateStatus(state, text): statusText is a function of the call site and is
\* not modelled apart from status.
updateStatus(state) == status' = state

\* addDebug(category, message): debugLog keeps the newest entry.
addDebug(entry) == debugLog' = entry

\* wsRef.current?.send(...) for the messages of one handler, on a socket that
\* is not connecting: an open socket takes them, a closing or closed one
\* discards them without an exception.
send(batch) == sent' = IF ws = "OPEN" THEN batch ELSE sent

SetPhase(i, ph, c) == [plays EXCEPT ![i] = [@ EXCEPT !.phase = ph, !.ctx = c]]

\* A playAudio call at its first await.
Pending(audioBytes, ph, c) ==
    [audio |-> audioBytes, phase |-> ph, ctx |-> c, overtaken |-> FALSE]

\* source.start(0) of call i, seen from the calls made before it that have not
\* started their source yet.
Started(i) ==
    [j \in DOMAIN plays |->
        IF j = i THEN [plays[j] EXCEPT !.phase = "playing", !.ctx = audioContextRef]
        ELSE IF j < i /\ plays[j].phase # "playing"
             THEN [plays[j] EXCEPT !.overtaken = TRUE]
             ELSE plays[j]]

Remove(s, i) == SubSeq(s, 1, i - 1) \o SubSeq(s, i + 1, Len(s))

FreeCtx == {c \in DOMAIN contexts : contexts[c] = "free"}
\* new AudioContext(): the object takes the first free slot
NewCtx == CHOOSE c \in FreeCtx : \A d \in FreeCtx : c <= d

FreeStarts == {i \in DOMAIN starts : starts[i].phase = "free"}
NewStart == CHOOSE i \in FreeStarts : \A j \in FreeStarts : i <= j

\* A start that holds neither a pending getUserMedia, nor a live stream, nor a
\* connected processor is forgotten.
Released(f) ==
    [i \in DOMAIN f |->
        IF f[i].phase = "started" /\ f[i].stream = "none" /\ f[i].proc = "none"
        THEN NoStart ELSE f[i]]

\* audioContext.close() seen from the playAudio calls: a source playing through
\* the context is cut and never ends; a resume() pending on it rejects.
PlaysAfterClose(c) ==
    LET kept == SelectSeq(plays, LAMBDA p : ~(p.phase = "playing" /\ p.ctx = c))
    IN  [i \in DOMAIN kept |->
            IF kept[i].phase = "resuming" /\ kept[i].ctx = c
            THEN [kept[i] EXCEPT !.phase = "rejecting", !.ctx = 0]
            ELSE kept[i]]

\* audioContext.close() seen from the processors: a processor of a closed
\* context gets no more audio blocks.
StartsAfterClose(f, c) ==
    [i \in DOMAIN f |->
        IF f[i].proc = "on" /\ f[i].ctx = c
        THEN [f[i] EXCEPT !.proc = "none", !.ctx = 0, !.lastSendTime = 0]
        ELSE f[i]]

\* The frames on record once the processors that f no longer holds connected
\* are gone: the start id of such a frame names no processor any more.
Retired(fr, f) ==
    [k \in DOMAIN fr |->
        IF fr[k][1] # 0 /\ f[fr[k][1]].proc # "on" THEN <<0, fr[k][2]>> ELSE fr[k]]

\* --------------------------------------------------------------- playback
\* playAudio creating and starting two sources for the one buffer.
playAudioTwice(audioBytes) ==
    /\ overlapped' = (overlapped \/ plays # << >>)
    /\ IF audioContextRef = 0
       THEN /\ contexts' = [contexts EXCEPT ![NewCtx] = "running"]
            /\ audioContextRef' = NewCtx
       ELSE /\ contexts' = [contexts EXCEPT ![audioContextRef] = "running"]
            /\ UNCHANGED audioContextRef
    /\ plays' = plays \o <<Pending(audioBytes, "decoding", 0), Pending(audioBytes, "decoding", 0)>>

\* playAudio up to its first await: the context is created lazily (the ref
\* never holds a closed context: stopConversation nulls it as it closes), then
\* either resume() is awaited (suspended context) or decodeAudioData() is.
playAudio(audioBytes) ==
    /\ overlapped' = (overlapped \/ plays # << >>)
    /\ IF audioContextRef = 0
       THEN \E st \in {"running", "suspended"} :
               /\ contexts' = [contexts EXCEPT ![NewCtx] = st]
               /\ audioContextRef' = NewCtx
               /\ plays' = Append(plays,
                       IF st = "suspended"
                       THEN Pending(audioBytes, "resuming", NewCtx)
                       ELSE Pending(audioBytes, "decoding", 0))
       ELSE /\ UNCHANGED audioVars
            /\ plays' = Append(plays,
                       IF contexts[audioContextRef] = "suspended"
                       THEN Pending(audioBytes, "resuming", audioContextRef)
                       ELSE Pending(audioBytes, "decoding", 0))

\* playAudio after `await audioContextRef.current.resume()`: the ref is read
\* again for decodeAudioData; a null ref throws into the catch block.
playAudioResumed(i) ==
    /\ plays[i].phase \in {"resuming", "rejecting"}
    /\ IF plays[i].phase = "rejecting"
       THEN /\ plays' = Remove(plays, i)
            /\ addDebug("AUDIO: Playback error")
            /\ UNCHANGED contexts
       ELSE /\ contexts' = [contexts EXCEPT ![plays[i].ctx] = "running"]
            /\ IF audioContextRef = 0
               THEN /\ plays' = Remove(plays, i)
                    /\ addDebug("AUDIO: Playback error")
               ELSE /\ plays' = SetPhase(i, "decoding", 0)
                    /\ UNCHANGED debugLog
    /\ UNCHANGED <<pageVars, captureVars, audioContextRef, overlapped, uncaught, uiVars, sent, inbox, clockVars, pcmVars>>

\* playAudioDecoded without source.start(0): the source never plays and never
\* ends.
playAudioDecodedMute(i) ==
    /\ plays[i].phase = "decoding"
    /\ plays' = Remove(plays, i)
    /\ IF plays[i].audio = "bad" \/ audioContextRef = 0
       THEN addDebug("AUDIO: Playback error")
       ELSE addDebug("AUDIO: Playing MP3 audio")
    /\ UNCHANGED <<pageVars, captureVars, audioVars, overlapped, uncaught, uiVars, sent, inbox, clockVars, pcmVars>>

\* playAudioDecoded with a catch block that reports the failure as a
\* conversation error.
playAudioDecodedFatal(i) ==
    /\ plays[i].phase = "decoding"
    /\ IF plays[i].audio = "bad" \/ audioContextRef = 0
       THEN /\ plays' = Remove(plays, i)
            /\ updateStatus("error")
            /\ addDebug("AUDIO: Playback error")
       ELSE /\ plays' = Started(i)
            /\ UNCHANGED status
            /\ addDebug("AUDIO: Playing MP3 audio")
    /\ UNCHANGED <<isConnected, isConversationActive, selectedMicrophone, micLoad, ws>>
    /\ UNCHANGED <<captureVars, audioVars, overlapped, uncaught, uiVars, sent, inbox, clockVars, pcmVars>>

\* playAudio after `await decodeAudioData(...)`: an undecodable payload rejects
\* into the catch block; otherwise the source is created on the context the ref
\* holds now (a null ref throws into the catch block) and started.
playAudioDecoded(i) ==
    /\ plays[i].phase = "decoding"
    /\ IF plays[i].audio = "bad" \/ audioContextRef = 0
       THEN /\ plays' = Remove(plays, i)
            /\ addDebug("AUDIO: Playback error")
       ELSE /\ plays' = Started(i)
            /\ addDebug("AUDIO: Playing MP3 audio")
    /\ UNCHANGED <<pageVars, captureVars, audioVars, overlapped, uncaught, uiVars, sent, inbox, clockVars, pcmVars>>

\* source.onended that leaves an error state alone.
onendedUnlessError(i) ==
    /\ plays[i].phase = "playing"
    /\ contexts[plays[i].ctx] = "running"
    /\ IF status = "error" THEN UNCHANGED status ELSE updateStatus("listening")
    /\ plays' = Remove(plays, i)
    /\ UNCHANGED <<isConnected, isConversationActive, selectedMicrophone, micLoad, ws>>
    /\ UNCHANGED <<captureVars, audioVars, debugLog, overlapped, uncaught, uiVars, sent, inbox, clockVars, pcmVars>>

\* source.onended: natural completion of a started source; a source only
\* advances while its context is running.
onended(i) ==
    /\ plays[i].phase = "playing"
    /\ contexts[plays[i].ctx] = "running"
    /\ updateStatus("listening")
    /\ plays' = Remove(plays, i)
    /\ UNCHANGED <<isConnected, isConversationActive, selectedMicrophone, micLoad, ws>>
    /\ UNCHANGED <<captureVars, audioVars, debugLog, overlapped, uncaught, uiVars, sent, inbox, clockVars, pcmVars>>

\* ------------------------------------------------------------- dispatcher
\* statusAfter with a user_speech case that also moves the state machine, as
\* its 'Processing...' interim text suggests.
statusAfterEager(data) ==
    CASE data.type \in {"conversation_started", "speech_started"} -> "listening"
      [] data.type = "conversation_stopped" -> "idle"
      [] data.type \in {"agent_processing", "user_speech"} -> "processing"
      [] data.type = "agent_speaking" -> "speaking"
      [] data.type = "error" -> "error"
      [] OTHER -> status

\* statusAfter with an approval_request case that moves the state machine.
statusAfterApproval(data) ==
    CASE data.type \in {"conversation_started", "speech_started"} -> "listening"
      [] data.type = "conversation_stopped" -> "idle"
      [] data.type \in {"agent_processing", "approval_request"} -> "processing"
      [] data.type = "agent_speaking" -> "speaking"
      [] data.type = "error" -> "error"
      [] OTHER -> status

\* statusAfter with an error state that only conversation_stopped leaves.
statusAfterSticky(data) ==
    CASE data.type = "conversation_stopped" -> "idle"
      [] status = "error" -> "error"
      [] data.type \in {"conversation_started", "speech_started"} -> "listening"
      [] data.type = "agent_processing" -> "processing"
      [] data.type = "agent_speaking" -> "speaking"
      [] data.type = "error" -> "error"
      [] OTHER -> status

\* The updateStatus call of each case of the switch over data.type; a case
\* without one leaves the status as it is.
statusAfter(data) ==
    CASE data.type \in {"conversation_started", "speech_started"} -> "listening"
      [] data.type = "conversation_stopped" -> "idle"
      [] data.type = "agent_processing" -> "processing"
      [] data.type = "agent_speaking" -> "speaking"
      [] data.type = "error" -> "error"
      [] OTHER -> status

\* A successful search_restaurants or pick_restaurants result with its list.
Listed(data) ==
    /\ data.type = "function_call"
    /\ data.function \in {"search_restaurants", "pick_restaurants"}
    /\ data.success
    /\ "restaurants" \in DOMAIN data

\* A successful search_restaurants or pick_restaurants result without
\* data.result.restaurants: the for-of loop over it throws, the promise of
\* handleWebSocketMessage rejects.
Listless(data) ==
    /\ data.type = "function_call"
    /\ data.function \in {"search_restaurants", "pick_restaurants"}
    /\ data.success
    /\ "restaurants" \notin DOMAIN data

\* The setIsConversationActive call of each case.
activeAfter(data) ==
    CASE data.type = "conversation_started" -> TRUE
      [] data.type = "conversation_stopped" -> FALSE
      [] OTHER -> isConversationActive

\* The addDebug call in the else branch of each case of the switch over
\* data.function; pick_restaurants logs the text of search_restaurants.
FailureText(function) ==
    CASE function = "store_dietary_preferences" -> "AGENT: Failed to store dietary preferences"
      [] function = "store_budget_info" -> "AGENT: Failed to store budget info"
      [] function \in {"search_restaurants", "pick_restaurants"} ->
            "AGENT: Failed to search restaurants"
      [] function = "confirm_order" -> "AGENT: Failed to confirm order"

\* The addDebug call of each case; a case without one leaves the log as it is.
debugAfter(data) ==
    CASE data.type = "connected" -> "SOCKET: Session ID"
      [] data.type = "conversation_started" -> "FLUX: Conversation started"
      [] data.type = "conversation_stopped" -> "FLUX: Conversation stopped"
      [] data.type = "speech_started" -> "USER: Started speaking"
      [] data.type = "user_speech" -> "USER: " \o data.transcript
      [] data.type = "agent_processing" -> "AGENT: Processing response"
      [] data.type = "agent_response" -> "AGENT: " \o data.response
      [] data.type = "system_response" -> "SYSTEM: " \o data.response
      [] data.type = "agent_speaking" /\ data.audio # "none" -> "AGENT: Playing bytes of audio"
      [] data.type = "function_call" /\ data.function # "other" /\ ~data.success ->
            FailureText(data.function)
      [] Listless(data) -> "ERROR: Message handling failed"
      [] data.type = "approval_request" -> "APPROVAL: request"
      [] data.type = "error" -> "ERROR: data.error"
      [] OTHER -> debugLog

\* data.result && data.result.success of a function_call for one of the
\* functions fs.
Succeeded(data, fs) ==
    data.type = "function_call" /\ data.function \in fs /\ data.success

\* addMessage putting the entry in front of the transcript.
addMessageFront(type, content) == <<<<type, content>>>> \o messages

\* addMessage(type, content): the entry is appended to the transcript.
addMessage(type, content) == Append(messages, <<type, content>>)

\* messagesAfter with else branches that report a failed function call in the
\* transcript.
messagesAfterFailure(data) ==
    CASE data.type = "user_speech" -> addMessage("user", data.transcript)
      [] data.type = "agent_response" -> addMessage("agent", data.response)
      [] data.type = "system_response" -> addMessage("system", data.response)
      [] Succeeded(data, {"store_dietary_preferences"}) ->
            addMessage("system", "Preference saved: data.result.preferences")
      [] Succeeded(data, {"store_budget_info"}) ->
            addMessage("system", "Budget noted: data.result.budget")
      [] data.type = "function_call" /\ data.function # "other" /\ ~data.success ->
            addMessage("system", "Function call failed")
      [] OTHER -> messages

\* The addMessage call of each case; the preferences and the budget of an
\* entry are kept as their names.
messagesAfter(data) ==
    CASE data.type = "user_speech" -> addMessage("user", data.transcript)
      [] data.type = "agent_response" -> addMessage("agent", data.response)
      [] data.type = "system_response" -> addMessage("system", data.response)
      [] Succeeded(data, {"store_dietary_preferences"}) ->
            addMessage("system", "Preference saved: data.result.preferences")
      [] Succeeded(data, {"store_budget_info"}) ->
            addMessage("system", "Budget noted: data.result.budget")
      [] OTHER -> messages

\* The marker ids the page uses: `restaurant-${restaurant.name}`.
MarkerIds == {"restaurant-" \o r.name : r \in Restaurants}

\* The google.maps.Map objects handed to setMap.
Maps == 1..MaxMaps

\* The refs that the marker operations of the MapProvider work on: markersRef
\* maps an id to the index of its marker in markerObjs, 0 for an id it does
\* not hold; infoWindowsRef maps an id to the content of its info window.
Store ==
    [ref |-> markersRef, objs |-> markerObjs, pending |-> pendingRef,
     info |-> infoWindowsRef]

\* params.infoWindowContent; "" when the field is absent (the code tests its
\* truthiness only)
infoWindowContent(params) ==
    IF "infoWindowContent" \in DOMAIN params THEN params.infoWindowContent ELSE ""

\* The info window of params.id after a call with a map: constructed, or its
\* content set, when content is given; left alone otherwise.
InfoWindow(info, params) ==
    IF infoWindowContent(params) # ""
    THEN [info EXCEPT ![params.id] = infoWindowContent(params)]
    ELSE info

\* new Marker({position, map, ...options})
Marker(map, params) ==
    [position |-> params.position, options |-> params.options, map |-> map]

\* existing.setOptions({...options, position, map}): the options given replace
\* the marker's, the others are kept.
setOptions(existing, map, params) ==
    [position |-> params.position,
     options |-> [k \in DOMAIN existing.options \cup DOMAIN params.options |->
                     IF k \in DOMAIN params.options
                     THEN params.options[k] ELSE existing.options[k]],
     map |-> IF map # 0 THEN map ELSE existing.map]

\* internalAddOrUpdateMarker with the first branch removed: a marker is
\* constructed for every call.
internalAddAlways(store, map, params) ==
    IF map = 0
    THEN [store EXCEPT !.pending = Append(@, params)]
    ELSE [store EXCEPT !.objs = Append(@, Marker(map, params)),
                       !.ref[params.id] = Len(store.objs) + 1,
                       !.info = InfoWindow(@, params)]

\* internalAddOrUpdateMarker(params): the marker of an id the store holds is
\* updated; otherwise the call is queued while there is no map, and a marker
\* is constructed and stored when there is one.
internalAddOrUpdateMarker(store, map, params) ==
    IF store.ref[params.id] # 0
    THEN [store EXCEPT !.objs[store.ref[params.id]] = setOptions(@, map, params),
                       !.info = IF map # 0 THEN InfoWindow(@, params) ELSE @]
    ELSE IF map = 0
         THEN [store EXCEPT !.pending = Append(@, params)]
         ELSE [store EXCEPT !.objs = Append(@, Marker(map, params)),
                            !.ref[params.id] = Len(store.objs) + 1,
                            !.info = InfoWindow(@, params)]

\* addMarker dropping the call made while there is no map.
addMarkerLost(store, map, params) ==
    IF map = 0
    THEN store
    ELSE internalAddOrUpdateMarker(store, map, params)

\* addMarker(params): queued while there is no map.
addMarker(store, map, params) ==
    IF map = 0
    THEN [store EXCEPT !.pending = Append(@, params)]
    ELSE internalAddOrUpdateMarker(store, map, params)

\* The addMarker calls of one loop of the page, in order.
RECURSIVE addEach(_, _, _)
addEach(store, map, calls) ==
    IF calls = << >> THEN store
    ELSE addEach(addMarker(store, map, Head(calls)), map, Tail(calls))

\* The loop of setMap over the queued jobs.
RECURSIVE flush(_, _, _)
flush(store, map, jobs) ==
    IF jobs = << >> THEN store
    ELSE flush(internalAddOrUpdateMarker(store, map, Head(jobs)), map, Tail(jobs))

\* The refs take the values of a store.
SetStore(store) ==
    /\ markersRef' = store.ref
    /\ markerObjs' = store.objs
    /\ infoWindowsRef' = store.info
    /\ pendingRef' = store.pending

\* The effect of the page's addMarker calls on the MapProvider.
addMarkers(calls) ==
    /\ SetStore(addEach(Store, mapRef, calls))
    /\ removed' = removed \ {calls[k].id : k \in 1..Len(calls)}
    /\ UNCHANGED mapRef

\* setMap(g, m): the map is kept and the queued jobs are run against it.
setMap(m) ==
    /\ mapRef' = m
    /\ SetStore([flush([Store EXCEPT !.pending = << >>], m, pendingRef)
                    EXCEPT !.pending = << >>])
    /\ UNCHANGED removed
    /\ UNCHANGED <<pageVars, captureVars, audioVars, plays, overlapped, debugLog,
                   uncaught, sent, inbox, clockVars, pcmVars>>
    /\ UNCHANGED <<messages, markerCalls, orderSummary, showConfirmOrderButton>>

\* The provider holds something of the id: a marker, an info window or a
\* queued job.
Holds(id) ==
    \/ markersRef[id] # 0
    \/ infoWindowsRef[id] # ""
    \/ \E k \in 1..Len(pendingRef) : pendingRef[k].id = id

\* removeMarker leaving the queued jobs of the id in the queue.
removeMarkerQueued(id) ==
    /\ markerObjs' = IF markersRef[id] # 0
                     THEN [markerObjs EXCEPT ![markersRef[id]].map = 0]
                     ELSE markerObjs
    /\ markersRef' = [markersRef EXCEPT ![id] = 0]
    /\ infoWindowsRef' = [infoWindowsRef EXCEPT ![id] = ""]
    /\ removed' = IF Holds(id) THEN removed \cup {id} ELSE removed
    /\ UNCHANGED <<mapRef, pendingRef>>
    /\ UNCHANGED <<pageVars, captureVars, audioVars, plays, overlapped, debugLog,
                   uncaught, sent, inbox, clockVars, pcmVars>>
    /\ UNCHANGED <<messages, markerCalls, orderSummary, showConfirmOrderButton>>

\* removeMarker(id): the marker is taken off the map and out of the store,
\* its info window is closed and dropped, and the queued jobs of the id are
\* dropped.
removeMarker(id) ==
    /\ markerObjs' = IF markersRef[id] # 0
                     THEN [markerObjs EXCEPT ![markersRef[id]].map = 0]
                     ELSE markerObjs
    /\ markersRef' = [markersRef EXCEPT ![id] = 0]
    /\ infoWindowsRef' = [infoWindowsRef EXCEPT ![id] = ""]
    /\ pendingRef' = SelectSeq(pendingRef, LAMBDA job : job.id # id)
    /\ removed' = IF Holds(id) THEN removed \cup {id} ELSE removed
    /\ UNCHANGED mapRef
    /\ UNCHANGED <<pageVars, captureVars, audioVars, plays, overlapped, debugLog,
                   uncaught, sent, inbox, clockVars, pcmVars>>
    /\ UNCHANGED <<messages, markerCalls, orderSummary, showConfirmOrderButton>>

\* clearMarkers leaving the info windows in their store.
clearMarkersWindows ==
    /\ markerObjs' = [k \in 1..Len(markerObjs) |->
                        IF \E id \in MarkerIds : markersRef[id] = k
                        THEN [markerObjs[k] EXCEPT !.map = 0] ELSE markerObjs[k]]
    /\ markersRef' = [id \in MarkerIds |-> 0]
    /\ pendingRef' = << >>
    /\ removed' = MarkerIds
    /\ UNCHANGED <<mapRef, infoWindowsRef>>
    /\ UNCHANGED <<pageVars, captureVars, audioVars, plays, overlapped, debugLog,
                   uncaught, sent, inbox, clockVars, pcmVars>>
    /\ UNCHANGED <<messages, markerCalls, orderSummary, showConfirmOrderButton>>

\* clearMarkers(): every stored marker is taken off the map, the store and the
\* queue are emptied.
clearMarkers ==
    /\ markerObjs' = [k \in 1..Len(markerObjs) |->
                        IF \E id \in MarkerIds : markersRef[id] = k
                        THEN [markerObjs[k] EXCEPT !.map = 0] ELSE markerObjs[k]]
    /\ markersRef' = [id \in MarkerIds |-> 0]
    /\ infoWindowsRef' = [id \in MarkerIds |-> ""]
    /\ pendingRef' = << >>
    /\ removed' = MarkerIds
    /\ UNCHANGED mapRef
    /\ UNCHANGED <<pageVars, captureVars, audioVars, plays, overlapped, debugLog,
                   uncaught, sent, inbox, clockVars, pcmVars>>
    /\ UNCHANGED <<messages, markerCalls, orderSummary, showConfirmOrderButton>>

\* The AddMarkerParams of a component that calls addMarker of the context
\* itself: an id, a position, options, and infoWindowContent or none.
Requests ==
    LET plain == [id : MarkerIds,
                  position : {[lat |-> 1, lng |-> 2], [lat |-> 2, lng |-> 1]},
                  options : {[title |-> "pin"]}]
    IN  plain \cup {[id |-> q.id, position |-> q.position, options |-> q.options,
                     infoWindowContent |-> "w1"] : q \in plain}

\* addMarker(params) called through the context.
AddMarkerCall(params) ==
    /\ Len(markerCalls) < MaxCalls
    /\ markerCalls' = Append(markerCalls, params)
    /\ addMarkers(<<params>>)
    /\ UNCHANGED <<pageVars, captureVars, audioVars, plays, overlapped, debugLog,
                   uncaught, sent, inbox, clockVars, pcmVars>>
    /\ UNCHANGED <<messages, orderSummary, showConfirmOrderButton>>

\* The options of the addMarker call of a restaurant: search_restaurants
\* passes an animation and a title, pick_restaurants an icon as well.
optionsOf(function, restaurant) ==
    IF function = "search_restaurants"
    THEN [animation |-> "DROP", title |-> restaurant.name]
    ELSE [animation |-> "BOUNCE", title |-> restaurant.name, icon |-> "markerIcon"]

\* markersOf with lat and lng exchanged in the position.
markersOfSwapped(data) ==
    IF Listed(data)
    THEN [k \in 1..Len(data.restaurants) |->
            [id |-> "restaurant-" \o data.restaurants[k].name,
             position |-> [lat |-> data.restaurants[k].lng,
                           lng |-> data.restaurants[k].lat],
             options |-> optionsOf(data.function, data.restaurants[k])]]
    ELSE << >>

\* The addMarker calls of the loop over data.result.restaurants, for
\* search_restaurants and pick_restaurants: one per entry, in list order, with
\* id `restaurant-${restaurant.name}` and position {lat, lng} of the entry.
markersOf(data) ==
    IF Listed(data)
    THEN [k \in 1..Len(data.restaurants) |->
            [id |-> "restaurant-" \o data.restaurants[k].name,
             position |-> [lat |-> data.restaurants[k].lat,
                           lng |-> data.restaurants[k].lng],
             options |-> optionsOf(data.function, data.restaurants[k])]]
    ELSE << >>

\* setOrderSummary(data.result.order_summary) of a successful confirm_order.
summaryAfter(data) ==
    IF Succeeded(data, {"confirm_order"}) THEN data.summary ELSE orderSummary

\* The button shown by every confirm_order result, failed ones included.
showAfterAny(data) ==
    (data.type = "function_call" /\ data.function = "confirm_order")
        \/ showConfirmOrderButton

\* setShowConfirmOrderButton(true) of a successful confirm_order.
showAfter(data) == Succeeded(data, {"confirm_order"}) \/ showConfirmOrderButton

\* handleWebSocketMessage(data): the switch over data.type.  It contains no
\* await: playAudio is called without one, so the handler runs to its end in
\* one step.
handleWebSocketMessage(data) ==
    /\ updateStatus(statusAfter(data))
    /\ isConversationActive' = activeAfter(data)
    /\ addDebug(debugAfter(data))
    /\ messages' = messagesAfter(data)
    /\ markerCalls' = markerCalls \o markersOf(data)
    /\ addMarkers(markersOf(data))
    /\ orderSummary' = summaryAfter(data)
    /\ showConfirmOrderButton' = showAfter(data)
    /\ IF data.type = "agent_speaking" /\ data.audio # "none"
       THEN playAudio(data.audio)
       ELSE UNCHANGED <<audioVars, plays, overlapped>>

\* The bounds on playAudio calls in flight, on the transcript and on the
\* addMarker calls are bounds on the input.
Admissible(data) ==
    /\ \/ data.audio = "none"
       \/ Len(plays) < MaxPlays /\ (audioContextRef # 0 \/ FreeCtx # {})
    /\ Len(messagesAfter(data)) <= MaxMessages
    /\ Len(markerCalls) + (IF Listed(data) THEN Len(data.restaurants) ELSE 0)
          <= MaxCalls

\* The body of ws.onmessage for one message event: the handler is called and
\* not awaited; its rejection is caught and logged.
onmessage(data) ==
    /\ ws = "OPEN"
    /\ Admissible(data)
    /\ handleWebSocketMessage(data)
    /\ UNCHANGED <<isConnected, selectedMicrophone, micLoad, ws>>
    /\ UNCHANGED <<captureVars, uncaught, sent, clockVars, pcmVars>>

\* A message event that arrives while the event loop is idle: ws.onmessage
\* runs for it at once.
OnMessage(data) ==
    /\ inbox = << >>
    /\ onmessage(data)
    /\ UNCHANGED inbox

\* A message event that arrives while the event loop is busy: the runtime
\* queues it.
Arrive(data) ==
    /\ ws = "OPEN"
    /\ inbox' = Append(inbox, data)
    /\ UNCHANGED <<pageVars, captureVars, audioVars, plays, debugLog, overlapped, uncaught, uiVars, sent, clockVars, pcmVars>>

\* The event loop taking the newest queued message event instead of the oldest.
DispatchNewest ==
    /\ inbox # << >>
    /\ onmessage(inbox[Len(inbox)])
    /\ inbox' = SubSeq(inbox, 1, Len(inbox) - 1)

\* The event loop runs ws.onmessage for the oldest queued message event.
Dispatch ==
    /\ inbox # << >>
    /\ onmessage(Head(inbox))
    /\ inbox' = Tail(inbox)


\* ---------------------------------------------------------------- channel
\* ws.onopen
onopen ==
    /\ ws = "CONNECTING"
    /\ ws' = "OPEN"
    /\ isConnected' = TRUE
    /\ updateStatus("idle")
    /\ addDebug("SOCKET: Connected to server")
    /\ UNCHANGED <<isConversationActive, selectedMicrophone, micLoad>>
    /\ UNCHANGED <<captureVars, audioVars, plays, overlapped, uncaught, uiVars, sent, inbox, clockVars, pcmVars>>

\* ws.onclose disarming capture as well.
oncloseDisarm ==
    /\ ws \in {"CONNECTING", "OPEN"}
    /\ inbox = << >>
    /\ ws' = "CLOSED"
    /\ isConnected' = FALSE
    /\ isRecordingRef' = FALSE
    /\ updateStatus("idle")
    /\ addDebug("SOCKET: Disconnected from server")
    /\ UNCHANGED <<isConversationActive, selectedMicrophone, micLoad>>
    /\ UNCHANGED <<processorRef, mediaStreamRef, starts, audioVars, plays, overlapped, uncaught, uiVars, sent, inbox, clockVars, pcmVars>>

\* ws.onclose; the close event is queued behind the message events.
onclose ==
    /\ ws \in {"CONNECTING", "OPEN"}
    /\ inbox = << >>
    /\ ws' = "CLOSED"
    /\ isConnected' = FALSE
    /\ updateStatus("idle")
    /\ addDebug("SOCKET: Disconnected from server")
    /\ UNCHANGED <<isConversationActive, selectedMicrophone, micLoad>>
    /\ UNCHANGED <<captureVars, audioVars, plays, overlapped, uncaught, uiVars, sent, inbox, clockVars, pcmVars>>

\* ws.onerror
onerror ==
    /\ ws \in {"CONNECTING", "OPEN"}
    /\ addDebug("ERROR: WebSocket error")
    /\ UNCHANGED <<pageVars, captureVars, audioVars, plays, overlapped, uncaught, uiVars, sent, inbox, clockVars, pcmVars>>

\* loadMicrophones, run once on mount: the first audio input is selected when
\* there is one; a rejected getUserMedia is logged.
loadMicrophones(outcome) ==
    /\ micLoad = "pending"
    /\ micLoad' = "done"
    /\ selectedMicrophone' = (outcome = "found")
    /\ debugLog' = CASE outcome = "found" -> "INFO: Loaded microphone(s)"
                     [] outcome = "failed" -> "ERROR: Failed to load microphones"
                     [] OTHER -> debugLog
    /\ UNCHANGED <<status, isConnected, isConversationActive, ws>>
    /\ UNCHANGED <<captureVars, audioVars, plays, overlapped, uncaught, uiVars, sent, inbox, clockVars, pcmVars>>

\* startConversation without its guard.
startConversationUnguarded ==
    /\ FreeStarts # {} /\ FreeCtx # {}
    /\ contexts' = [contexts EXCEPT ![NewCtx] = "running"]
    /\ audioContextRef' = NewCtx
    /\ starts' = [starts EXCEPT ![NewStart] = [@ EXCEPT !.phase = "acquiring"]]
    /\ UNCHANGED <<pageVars, isRecordingRef, processorRef, mediaStreamRef>>
    /\ UNCHANGED <<plays, debugLog, overlapped, uncaught, uiVars, sent, inbox, clockVars, pcmVars>>

\* ---------------------------------------------------------------- capture
\* startConversation up to `await getUserMedia(constraints)`: a fresh
\* AudioContext is stored in audioContextRef, whatever the ref held before.
startConversation ==
    IF ~isConnected \/ ~selectedMicrophone
    THEN UNCHANGED vars
    ELSE /\ FreeStarts # {} /\ FreeCtx # {}
         /\ contexts' = [contexts EXCEPT ![NewCtx] = "running"]
         /\ audioContextRef' = NewCtx
         /\ starts' = [starts EXCEPT ![NewStart] = [@ EXCEPT !.phase = "acquiring"]]
         /\ UNCHANGED <<pageVars, isRecordingRef, processorRef, mediaStreamRef>>
         /\ UNCHANGED <<plays, debugLog, overlapped, uncaught, uiVars, sent, inbox, clockVars, pcmVars>>

\* The Begin button: disabled={!isConnected || !selectedMicrophone || isConversationActive}
ClickBegin ==
    /\ isConnected /\ selectedMicrophone /\ ~isConversationActive
    /\ startConversation

\* setupAudioProcessing, called by start i once its stream is in
\* mediaStreamRef: without an audio context it returns at once; otherwise a
\* processor with its own lastSendTime is created on the context the ref holds
\* now, and capture is armed.
setupAudioProcessing(i, withStream) ==
    IF audioContextRef = 0
    THEN /\ starts' = withStream
         /\ UNCHANGED <<processorRef, isRecordingRef>>
    ELSE /\ starts' = [withStream EXCEPT ![i] =
                          [@ EXCEPT !.proc = "on", !.ctx = audioContextRef, !.lastSendTime = 0]]
         /\ processorRef' = i
         /\ isRecordingRef' = TRUE

\* startConversation sending the start command without the configuration.
getUserMediaResolvedUnconfigured(i) ==
    /\ starts[i].phase = "acquiring"
    /\ mediaStreamRef' = i
    /\ setupAudioProcessing(i, [starts EXCEPT ![i] = [@ EXCEPT !.phase = "started", !.stream = "live"]])
    /\ send(<<"start_conversation">>)
    /\ addDebug("AUDIO: Started audio capture")
    /\ UNCHANGED <<pageVars, audioVars, plays, overlapped, uncaught, uiVars, inbox, clockVars, pcmVars>>

\* The continuation of startConversation without its start_conversation
\* message.
getUserMediaResolvedUnsent(i) ==
    /\ starts[i].phase = "acquiring"
    /\ mediaStreamRef' = i
    /\ setupAudioProcessing(i, [starts EXCEPT ![i] = [@ EXCEPT !.phase = "started", !.stream = "live"]])
    /\ send(<<"update_config">>)
    /\ addDebug("AUDIO: Started audio capture")
    /\ UNCHANGED <<pageVars, audioVars, plays, overlapped, uncaught, uiVars, inbox, clockVars, pcmVars>>

\* startConversation after getUserMedia resolved: stream stored, processing
\* set up, update_config and start_conversation written to the socket (a
\* closed socket discards them).
getUserMediaResolved(i) ==
    /\ starts[i].phase = "acquiring"
    /\ mediaStreamRef' = i
    /\ setupAudioProcessing(i, [starts EXCEPT ![i] = [@ EXCEPT !.phase = "started", !.stream = "live"]])
    /\ send(<<"update_config", "start_conversation">>)
    /\ addDebug("AUDIO: Started audio capture")
    /\ UNCHANGED <<pageVars, audioVars, plays, overlapped, uncaught, uiVars, inbox, clockVars, pcmVars>>

\* startConversation with a catch block that reports the failure and goes on
\* to send the start command.
getUserMediaRejectedSends(i) ==
    /\ starts[i].phase = "acquiring"
    /\ starts' = [starts EXCEPT ![i] = NoStart]
    /\ updateStatus("error")
    /\ addDebug("ERROR: Failed to start")
    /\ send(<<"start_conversation">>)
    /\ UNCHANGED <<isConnected, isConversationActive, selectedMicrophone, micLoad, ws>>
    /\ UNCHANGED <<isRecordingRef, processorRef, mediaStreamRef>>
    /\ UNCHANGED <<audioVars, plays, overlapped, uncaught, uiVars, inbox, clockVars, pcmVars>>

\* startConversation's catch block: getUserMedia rejected.
getUserMediaRejected(i) ==
    /\ starts[i].phase = "acquiring"
    /\ starts' = [starts EXCEPT ![i] = NoStart]
    /\ updateStatus("error")
    /\ addDebug("ERROR: Failed to start")
    /\ UNCHANGED <<isConnected, isConversationActive, selectedMicrophone, micLoad, ws>>
    /\ UNCHANGED <<isRecordingRef, processorRef, mediaStreamRef>>
    /\ UNCHANGED <<audioVars, plays, overlapped, uncaught, uiVars, sent, inbox, clockVars, pcmVars>>

\* The body of stopConversation: every release is guarded by a null check;
\* ws.send throws only on a socket that is still connecting, and then the log
\* line is not reached.
releaseCapture ==
    /\ isRecordingRef' = FALSE
    /\ processorRef' = 0
    /\ mediaStreamRef' = 0
    /\ audioContextRef' = 0
    /\ LET disconnected ==
              [i \in DOMAIN starts |->
                  IF i = processorRef
                  THEN [starts[i] EXCEPT !.proc = "none", !.ctx = 0, !.lastSendTime = 0]
                  ELSE starts[i]]
           stopped ==
              [i \in DOMAIN starts |->
                  IF i = mediaStreamRef
                  THEN [disconnected[i] EXCEPT !.stream = "none"]
                  ELSE disconnected[i]]
           closed ==
              IF audioContextRef # 0
              THEN StartsAfterClose(stopped, audioContextRef)
              ELSE stopped
       IN  /\ starts' = Released(closed)
           /\ frames' = Retired(frames, closed)
           /\ IF audioContextRef # 0
              THEN /\ contexts' = [contexts EXCEPT ![audioContextRef] = "free"]
                   /\ plays' = PlaysAfterClose(audioContextRef)
              ELSE UNCHANGED <<contexts, plays>>
    /\ IF ws = "CONNECTING"
       THEN uncaught' = TRUE /\ UNCHANGED <<debugLog, sent>>
       ELSE /\ send(<<"stop_conversation">>)
            /\ addDebug("AUDIO: Conversation stopped")
            /\ UNCHANGED uncaught

\* stopConversation without `isRecordingRef.current = false`.
stopConversationArmed ==
    /\ processorRef' = 0
    /\ mediaStreamRef' = 0
    /\ audioContextRef' = 0
    /\ LET disconnected ==
              [i \in DOMAIN starts |->
                  IF i = processorRef
                  THEN [starts[i] EXCEPT !.proc = "none", !.ctx = 0, !.lastSendTime = 0]
                  ELSE starts[i]]
           stopped ==
              [i \in DOMAIN starts |->
                  IF i = mediaStreamRef
                  THEN [disconnected[i] EXCEPT !.stream = "none"]
                  ELSE disconnected[i]]
           closed ==
              IF audioContextRef # 0
              THEN StartsAfterClose(stopped, audioContextRef)
              ELSE stopped
       IN  /\ starts' = Released(closed)
           /\ frames' = Retired(frames, closed)
           /\ IF audioContextRef # 0
              THEN /\ contexts' = [contexts EXCEPT ![audioContextRef] = "free"]
                   /\ plays' = PlaysAfterClose(audioContextRef)
              ELSE UNCHANGED <<contexts, plays>>
    /\ send(<<"stop_conversation">>)
    /\ addDebug("AUDIO: Conversation stopped")
    /\ UNCHANGED <<pageVars, isRecordingRef, overlapped, uncaught, uiVars, inbox, now, pcmVars>>

\* stopConversation that also resets the state machine.
stopConversationIdle ==
    /\ releaseCapture
    /\ updateStatus("idle")
    /\ UNCHANGED <<isConnected, isConversationActive, selectedMicrophone, micLoad, ws>>
    /\ UNCHANGED <<overlapped, inbox, now, pcmVars, uiVars>>

\* stopConversation touches neither the status nor the conversation flag.
stopConversation ==
    /\ releaseCapture
    /\ UNCHANGED <<pageVars, overlapped, inbox, now, pcmVars, uiVars>>

\* The Cancel button: disabled={!isConversationActive}
ClickCancel ==
    /\ isConversationActive
    /\ stopConversation

\* JSON.stringify({ type: 'confirmed_order', summary })
ConfirmedOrder(summary) == "confirmed_order:" \o summary

\* confirmOrder sending the message twice.
confirmOrderTwice(summary) ==
    IF ws = "CONNECTING"
    THEN uncaught' = TRUE /\ UNCHANGED sent
    ELSE send(<<ConfirmedOrder(summary), ConfirmedOrder(summary)>>) /\ UNCHANGED uncaught

\* confirmOrder(summary): one send; on a socket that is still connecting the
\* send throws.
confirmOrder(summary) ==
    IF ws = "CONNECTING"
    THEN uncaught' = TRUE /\ UNCHANGED sent
    ELSE send(<<ConfirmedOrder(summary)>>) /\ UNCHANGED uncaught

\* The Confirm Order button, rendered while showConfirmOrderButton:
\* confirmOrder(orderSummary), then addMessage('system', 'ORDER SUBMITTED.').
ClickConfirm ==
    /\ showConfirmOrderButton
    /\ Len(messages) < MaxMessages
    /\ confirmOrder(orderSummary)
    /\ messages' = IF ws = "CONNECTING" THEN messages
                   ELSE addMessage("system", "ORDER SUBMITTED.")
    /\ UNCHANGED <<pageVars, captureVars, audioVars, plays, overlapped, debugLog, inbox,
                   clockVars, pcmVars>>
    /\ UNCHANGED <<markerCalls, orderSummary, showConfirmOrderButton, mapVars>>

\* a < b of two numbers; FALSE when either is NaN
Less(a, b) ==
    /\ a # NaN
    /\ b # NaN
    /\ IF a[2] = 0 /\ b[2] = 0 THEN a[1] < b[1] ELSE a[1] * b[2] < b[1] * a[2]

\* Math.min and Math.max: NaN when either argument is NaN
MathMin(a, b) == IF a = NaN \/ b = NaN THEN NaN ELSE IF Less(b, a) THEN b ELSE a

MathMax(a, b) == IF a = NaN \/ b = NaN THEN NaN ELSE IF Less(a, b) THEN b ELSE a

\* s * k for an integer k
Times(s, k) == <<s[1] * k, s[2]>>

\* The store into an Int16Array element: NaN and the infinities become 0, a
\* number is truncated towards zero and reduced modulo 2^16 into the int16
\* range.
ToInt16(x) ==
    IF x[2] = 0 THEN 0
    ELSE LET t == IF x[1] >= 0 THEN x[1] \div x[2] ELSE -((-x[1]) \div x[2])
         IN  ((t + 32768) % 65536) - 32768

\* convertFloatToPcm scaling every sample by 0x8000.
convertFloatToPcmWide(floatData) ==
    [i \in 1..Len(floatData) |->
        LET s == MathMax(<<-1, 1>>, MathMin(<<1, 1>>, floatData[i]))
        IN  ToInt16(Times(s, 32768))]

\* convertFloatToPcm: s = Math.max(-1, Math.min(1, floatData[i]));
\* pcmData[i] = s < 0 ? s * 0x8000 : s * 0x7FFF
convertFloatToPcm(floatData) ==
    [i \in 1..Len(floatData) |->
        LET s == MathMax(<<-1, 1>>, MathMin(<<1, 1>>, floatData[i]))
        IN  ToInt16(IF Less(s, <<0, 1>>) THEN Times(s, 32768) ELSE Times(s, 32767))]

\* The audio thread fills the buffer of the next audio block.
AudioBlock(inputData) ==
    /\ inputBuffer' = inputData
    /\ UNCHANGED <<pageVars, captureVars, audioVars, plays, debugLog, overlapped, uncaught,
                   uiVars, sent, inbox, clockVars, pcmData>>

\* onaudioprocess reporting a block it cannot send on a channel that is not
\* open as a conversation error.
onaudioprocessStrict(i) ==
    /\ starts[i].proc = "on"
    /\ contexts[starts[i].ctx] = "running"
    /\ IF ws = "OPEN" /\ isRecordingRef /\ now - starts[i].lastSendTime >= sendInterval
       THEN /\ frames' = Append(frames, <<i, now>>)
            /\ pcmData' = convertFloatToPcm(inputBuffer)
            /\ starts' = [starts EXCEPT ![i] = [@ EXCEPT !.lastSendTime = now]]
            /\ UNCHANGED status
       ELSE /\ UNCHANGED <<frames, pcmData, starts>>
            /\ IF ws # "OPEN" THEN updateStatus("error") ELSE UNCHANGED status
    /\ UNCHANGED <<isConnected, isConversationActive, selectedMicrophone, micLoad, ws>>
    /\ UNCHANGED <<isRecordingRef, processorRef, mediaStreamRef>>
    /\ UNCHANGED <<audioVars, plays, debugLog, overlapped, uncaught, uiVars, sent, inbox, now, inputBuffer>>

\* onaudioprocess without the isRecordingRef test of the send gate.
onaudioprocessUnarmed(i) ==
    /\ starts[i].proc = "on"
    /\ contexts[starts[i].ctx] = "running"
    /\ IF ws = "OPEN" /\ now - starts[i].lastSendTime >= sendInterval
       THEN /\ frames' = Append(frames, <<i, now>>)
            /\ pcmData' = convertFloatToPcm(inputBuffer)
            /\ starts' = [starts EXCEPT ![i] = [@ EXCEPT !.lastSendTime = now]]
       ELSE UNCHANGED <<frames, pcmData, starts>>
    /\ UNCHANGED <<pageVars, isRecordingRef, processorRef, mediaStreamRef>>
    /\ UNCHANGED <<audioVars, plays, debugLog, overlapped, uncaught, uiVars, sent, inbox, now, inputBuffer>>

\* onaudioprocess without the elapsed-time test of the send gate.
onaudioprocessUngated(i) ==
    /\ starts[i].proc = "on"
    /\ contexts[starts[i].ctx] = "running"
    /\ IF ws = "OPEN" /\ isRecordingRef
       THEN /\ frames' = Append(frames, <<i, now>>)
            /\ pcmData' = convertFloatToPcm(inputBuffer)
            /\ starts' = [starts EXCEPT ![i] = [@ EXCEPT !.lastSendTime = now]]
       ELSE UNCHANGED <<frames, pcmData, starts>>
    /\ UNCHANGED <<pageVars, isRecordingRef, processorRef, mediaStreamRef>>
    /\ UNCHANGED <<audioVars, plays, debugLog, overlapped, uncaught, uiVars, sent, inbox, now, inputBuffer>>

\* processor.onaudioprocess of start i, for one audio block: the block is sent
\* when the socket is open, capture is armed and sendInterval has elapsed since
\* this processor's last send; otherwise it is dropped.
onaudioprocess(i) ==
    /\ starts[i].proc = "on"
    /\ contexts[starts[i].ctx] = "running"
    /\ IF ws = "OPEN" /\ isRecordingRef /\ now - starts[i].lastSendTime >= sendInterval
       THEN /\ frames' = Append(frames, <<i, now>>)
            /\ pcmData' = convertFloatToPcm(inputBuffer)
            /\ starts' = [starts EXCEPT ![i] = [@ EXCEPT !.lastSendTime = now]]
       ELSE UNCHANGED <<frames, pcmData, starts>>
    /\ UNCHANGED <<pageVars, isRecordingRef, processorRef, mediaStreamRef>>
    /\ UNCHANGED <<audioVars, plays, debugLog, overlapped, uncaught, uiVars, sent, inbox, now, inputBuffer>>

\* Date.now() advances.
Elapse ==
    /\ now < MaxTime
    /\ now' = now + Tick
    /\ UNCHANGED <<pageVars, captureVars, audioVars, plays, debugLog, overlapped, uncaught, uiVars, sent, inbox, frames, pcmVars>>

\* ------------------------------------------------------------ the specs
Channel == onopen \/ onclose \/ onerror

Microphones == \E outcome \in {"found", "none", "failed"} : loadMicrophones(outcome)

\* Messages of M, with at most n playAudio calls in flight.
Inbound(M, n) ==
    \E data \in M : (data.audio = "none" \/ Len(plays) < n) /\ OnMessage(data)

Playback ==
    \/ \E i \in DOMAIN plays : playAudioResumed(i)
    \/ \E i \in DOMAIN plays : playAudioDecoded(i)
    \/ \E i \in DOMAIN plays : onended(i)

\* The capture controls, with at most n starts holding a resource.
Capture(n) ==
    \/ Cardinality(DOMAIN starts \ FreeStarts) < n /\ ClickBegin
    \/ \E i \in DOMAIN starts : getUserMediaResolved(i)
    \/ \E i \in DOMAIN starts : getUserMediaRejected(i)
    \/ ClickCancel

\* The page without its transcript, map and order summary (for these see
\* NextOrder), one start and one playback at a time.
Next ==
    \/ Channel
    \/ Microphones
    \/ Inbound(Control, MaxPlays - 1)
    \/ Playback
    \/ Capture(MaxStarts - 1)

Spec == Init /\ [][Next]_vars

\* The dispatcher and the playback pipeline, capture never started.
NextDispatch == Channel \/ Inbound(Control, MaxPlays) \/ Playback

SpecDispatch == Init /\ [][NextDispatch]_vars

\* The capture pipeline and the state machine, no audio played.
NextCapture ==
    \/ Channel
    \/ Microphones
    \/ Inbound(Control, 0)
    \/ Capture(MaxStarts)

SpecCapture == Init /\ [][NextCapture]_vars

\* The messages that only append to the transcript.
Spoken ==
    {m \in Messages : m.type \in {"user_speech", "agent_response", "system_response"}}

\* The messages with the text t1.
Said ==
    {m \in Messages :
        \/ m.type = "user_speech" /\ m.transcript = "t1"
        \/ m.type \in {"agent_response", "system_response"} /\ m.response = "t1"}

\* The state machine under every message that plays no audio and under the
\* capture controls, one start at a time; the transcript gets one entry.
NextState ==
    \/ onopen
    \/ onclose
    \/ loadMicrophones("found")
    \/ Inbound(Control, 0)
    \/ messages = << >> /\ Inbound(Spoken \cap Said, 0)
    \/ Capture(MaxStarts - 1)

SpecState == Init /\ [][NextState]_vars

\* The messages of an agent turn.
Turn ==
    {m \in Messages : m.type \in {"agent_processing", "agent_speaking", "error"}}

\* The dispatcher fed from the queue of the runtime: message events arrive
\* while the event loop is busy and are dispatched later.
NextQueue ==
    \/ onopen
    \/ \E data \in Turn : Len(inbox) < MaxInbox /\ Arrive(data)
    \/ Dispatch
    \/ Playback

SpecQueue == Init /\ [][NextQueue]_vars

\* A speaking turn that is left alone: while the state is speaking no message
\* arrives, the channel raises no event and the user does nothing.  A pending
\* resume() or decodeAudioData() settles and a started source ends.
Quiet == status # "speaking"

NextLive ==
    \/ Quiet /\ Channel
    \/ Quiet /\ Inbound(Control, MaxPlays)
    \/ Quiet /\ ClickCancel
    \/ Playback

SpecLive == Init /\ [][NextLive]_vars /\ WF_vars(Playback)

\* The capture pipeline under a clock: conversations are started, confirmed by
\* the backend, stopped and started again while audio blocks are produced.
NextThrottle ==
    \/ onopen
    \/ loadMicrophones("found")
    \/ Inbound({Msg("conversation_started"), Msg("conversation_stopped")}, 0)
    \/ Capture(MaxStarts - 1)
    \/ \E i \in DOMAIN starts : Len(frames) < MaxFrames /\ onaudioprocess(i)
    \/ Elapse

SpecThrottle == Init /\ [][NextThrottle]_vars

\* The send gate: two starts may hold resources at once, the channel may
\* close, and audio blocks are produced under the clock.
NextGate ==
    \/ onopen
    \/ onclose
    \/ loadMicrophones("found")
    \/ Inbound({Msg("conversation_started")}, 0)
    \/ Cardinality(DOMAIN starts \ FreeStarts) < MaxStarts /\ ClickBegin
    \/ \E i \in DOMAIN starts : getUserMediaResolved(i)
    \/ ClickCancel
    \/ \E i \in DOMAIN starts : Len(frames) < MaxFrames - 1 /\ onaudioprocess(i)
    \/ Elapse

SpecGate == Init /\ [][NextGate]_vars

\* Conversations started, confirmed, stopped and started again, two starts at
\* a time, while audio blocks are produced; the clock stands still, so that
\* each processor sends one frame.
NextStop ==
    \/ onopen
    \/ loadMicrophones("found")
    \/ Inbound({Msg("conversation_started"), Msg("conversation_stopped")}, 0)
    \/ Cardinality(DOMAIN starts \ FreeStarts) < MaxStarts /\ ClickBegin
    \/ \E i \in DOMAIN starts : getUserMediaResolved(i)
    \/ ClickCancel
    \/ \E i \in DOMAIN starts : Len(frames) < MaxFrames /\ onaudioprocess(i)

SpecStop == Init /\ [][NextStop]_vars

\* The messages that set the state, one of each kind.
Setting ==
    {Msg("conversation_started"), Msg("agent_processing"), Msg("error"),
     Msg("conversation_stopped")}

\* The function calls, succeeded and failed; the restaurant lists are the
\* empty one and the one with the single entry r2.
Ordering ==
    {m \in Messages :
        /\ m.type = "function_call"
        /\ Listed(m)
              => \A k \in 1..Len(m.restaurants) : m.restaurants[k].name = "r2"
                                                  /\ k = 1}

\* The dispatcher and what it forwards to the transcript, the map and the
\* order UI: function calls, succeeded and failed, arrive in every
\* conversation state.
NextOrder ==
    \/ onopen
    \/ Inbound(Setting, 0)
    \/ Inbound(Ordering, 0)

SpecOrder == Init /\ [][NextOrder]_vars

\* The results of search_restaurants and pick_restaurants, failed and
\* succeeded with every restaurant list.
Searches ==
    {m \in Messages :
        /\ m.type = "function_call"
        /\ m.function \in {"search_restaurants", "pick_restaurants"}
        /\ m.success => Listed(m)}

\* The dispatcher and its addMarker calls, in every conversation state.
NextSearch ==
    \/ onopen
    \/ Inbound(Setting, 0)
    \/ Inbound(Searches, 0)

SpecSearch == Init /\ [][NextSearch]_vars

\* The MapProvider under the page: the map is set, and set again, before,
\* between and after the addMarker calls of the dispatcher; markers are
\* removed and cleared.
NextMap ==
    \/ onopen
    \/ Inbound(Searches, 0)
    \/ \E m \in Maps : setMap(m)
    \/ \E id \in MarkerIds : Holds(id) /\ removeMarker(id)
    \/ (\E id \in MarkerIds : Holds(id)) /\ clearMarkers

SpecMap == Init /\ [][NextMap]_vars

\* The results of confirm_order, succeeded and failed.
Confirming == {m \in Messages : m.type = "function_call" /\ m.function = "confirm_order"}

\* The order UI: confirm_order results arrive in every conversation state, the
\* user clicks Confirm Order, the channel closes.
NextConfirm ==
    \/ onopen
    \/ onclose
    \/ Inbound(Setting, 0)
    \/ Inbound(Confirming, 0)
    \/ ClickConfirm

SpecConfirm == Init /\ [][NextConfirm]_vars

\* The message types of a full turn, in the order the backend sends them.
TurnTypes ==
    <<"conversation_started", "speech_started", "user_speech", "agent_processing",
      "agent_response", "agent_speaking">>

\* Nothing has happened yet in the conversation.
Pristine == status = "idle" /\ messages = << >> /\ inbox = << >> /\ plays = << >>

\* The next message of a full turn arrives; the first one arrives in a
\* pristine state.
ArriveTurn(data) ==
    /\ Len(inbox) < Len(TurnTypes)
    /\ data.type = TurnTypes[Len(inbox) + 1]
    /\ IF inbox = << >> THEN Pristine ELSE Head(inbox).type = "conversation_started"
    /\ Arrive(data)

\* The event loop dispatches the messages of the turn once all have arrived.
DispatchTurn ==
    /\ inbox # << >>
    /\ Head(inbox).type = "conversation_started" => Len(inbox) = Len(TurnTypes)
    /\ Dispatch

\* A full turn: its messages arrive in a burst and are dispatched in order,
\* then the audio plays to its end.  Outside the turn, while nothing plays,
\* state-setting and transcript messages arrive one by one.
NextTurn ==
    \/ onopen
    \/ \E data \in Messages : ArriveTurn(data)
    \/ DispatchTurn
    \/ Playback
    \/ plays = << >> /\ Inbound(Setting \cup Spoken, 0)

SpecTurn == Init /\ [][NextTurn]_vars

\* The messages without audio that move the state machine, and the ones that
\* do not; the function calls are those of Ordering.
Moving == Setting \cup {Msg("speech_started"), [type |-> "agent_speaking", audio |-> "none"]}
Resting ==
    {m \in Silent : m.type # "function_call"} \cup Ordering

\* The transcript, the map and the order UI are as they were at the start.
Untouched == messages = << >> /\ markerCalls = << >> /\ ~showConfirmOrderButton

\* The dispatcher under every kind of message, no audio played: the messages
\* that do not move the state machine arrive in every conversation state; one
\* of them reaches the transcript, the map or the order UI.
NextSilent ==
    \/ onopen
    \/ Inbound(Moving, 0)
    \/ Inbound(Resting \cap Control, 0)
    \/ Untouched /\ Inbound(Resting \ Control, 0)

SpecSilent == Init /\ [][NextSilent]_vars

\* The successful results that put a marker on the map or show the Confirm
\* Order button.
Offers ==
    {m \in Ordering :
        \/ Listed(m) /\ m.function = "search_restaurants"
        \/ Succeeded(m, {"confirm_order"})}

\* The components around the state machine: the capture controls, the audio
\* blocks, the Confirm Order button and the marker operations, in every
\* conversation state; one start at a time, the clock stands still and one
\* frame is sent.
NextAround ==
    \/ onopen
    \/ loadMicrophones("found")
    \/ Inbound(Setting, 0)
    \/ Untouched /\ Inbound(Offers, 0)
    \/ FreeStarts = DOMAIN starts /\ ClickBegin
    \/ \E i \in DOMAIN starts : getUserMediaResolved(i)
    \/ ClickCancel
    \/ \E i \in DOMAIN starts : frames = << >> /\ onaudioprocess(i)
    \/ ClickConfirm
    \/ \E m \in Maps : setMap(m)
    \/ \E id \in MarkerIds : removeMarker(id)
    \/ clearMarkers

SpecAround == Init /\ [][NextAround]_vars

\* The messages that start a conversation and report an error, audio that
\* decodes and audio that does not, the failed function results and the
\* results whose handling throws.
Failing ==
    {m \in Messages :
        \/ m.type \in {"conversation_started", "error"}
        \/ m.type = "agent_speaking" /\ m.audio # "none"
        \/ m.type = "function_call" /\ m.function # "other" /\ ~m.success
        \/ Listless(m)}

\* The page with every failure it absorbs: sends on a closed channel,
\* undecodable audio, failed function results, results whose handling throws,
\* channel errors and closes, failed starts; one start and one playback at a
\* time, one frame sent.
NextFailures ==
    \/ Channel
    \/ loadMicrophones("found")
    \/ Inbound(Failing, 0)
    \/ plays = << >> /\ Inbound(Failing, MaxPlays)
    \/ Playback
    \/ FreeStarts = DOMAIN starts /\ ClickBegin
    \/ \E i \in DOMAIN starts : getUserMediaResolved(i)
    \/ \E i \in DOMAIN starts : getUserMediaRejected(i)
    \/ ClickCancel
    \/ \E i \in DOMAIN starts : frames = << >> /\ onaudioprocess(i)

SpecFailures == Init /\ [][NextFailures]_vars

\* The messages that call updateStatus.
StateSetting ==
    {m \in Messages :
        m.type \in {"conversation_started", "conversation_stopped", "speech_started",
                    "agent_processing", "agent_speaking", "error"}}

\* Every writer of the conversation state: the dispatcher, the end of a
\* playback, the channel opening and closing, the catch block of a start; one
\* start and one playback at a time.
NextStatus ==
    \/ Channel
    \/ loadMicrophones("found")
    \/ Inbound(StateSetting, 0)
    \/ plays = << >> /\ Inbound(StateSetting, MaxPlays)
    \/ Playback
    \/ FreeStarts = DOMAIN starts /\ ClickBegin
    \/ \E i \in DOMAIN starts : getUserMediaResolved(i)
    \/ \E i \in DOMAIN starts : getUserMediaRejected(i)
    \/ ClickCancel

SpecStatus == Init /\ [][NextStatus]_vars

\* One capture pipeline on an open channel, one audio block of any content
\* after the silent one, and the first frame written.
NextPcm ==
    \/ onopen
    \/ loadMicrophones("found")
    \/ FreeStarts = DOMAIN starts /\ ClickBegin
    \/ \E i \in DOMAIN starts : getUserMediaResolved(i)
    \/ inputBuffer = <<Zero>> /\ \E inputData \in Buffers : AudioBlock(inputData)
    \/ frames = << >> /\ \E i \in DOMAIN starts : onaudioprocess(i)

SpecPcm == Init /\ [][NextPcm]_vars

\* startConversation called in every state of the page, whatever the Begin
\* button shows: before the channel opens and after it closed, before and
\* after the microphones are loaded, with and without a microphone found.
NextGuard ==
    \/ Channel
    \/ Microphones
    \/ Inbound({Msg("conversation_started")}, 0)
    \/ startConversation
    \/ \E i \in DOMAIN starts : getUserMediaResolved(i)
    \/ \E i \in DOMAIN starts : getUserMediaRejected(i)
    \/ ClickCancel

SpecGuard == Init /\ [][NextGuard]_vars

\* The MapProvider under the calls of its context: setMap, addMarker with and
\* without info window content, removeMarker and clearMarkers, in any order.
NextMarkers ==
    \/ \E m \in Maps : setMap(m)
    \/ \E params \in Requests : AddMarkerCall(params)
    \/ \E id \in MarkerIds : removeMarker(id)
    \/ clearMarkers

SpecMarkers == Init /\ [][NextMarkers]_vars

\* The MapProvider with every addMarker call made before the map is set.
NextPending ==
    \/ \E m \in Maps : setMap(m)
    \/ mapRef = 0 /\ \E params \in Requests : AddMarkerCall(params)
    \/ \E id \in MarkerIds : removeMarker(id)
    \/ clearMarkers

SpecPending == Init /\ [][NextPending]_vars


\* ------------------------------------------------------------- the claims

\* No capture or playback resource is active: capture disarmed, no connected
\* processor, no live microphone stream, no open audio context.
NoActiveResource ==
    /\ ~isRecordingRef
    /\ processorRef = 0 /\ mediaStreamRef = 0 /\ audioContextRef = 0
    /\ \A i \in DOMAIN starts : starts[i].proc = "none" /\ starts[i].stream = "none"
    /\ \A c \in DOMAIN contexts : contexts[c] = "free"

\* C1: from every reachable state, the dispatch of conversation_stopped sets the
\* state to idle and leaves no capture or playback resource active.
C1_StoppedTearsDown ==
    [][OnMessage(Msg("conversation_stopped")) => (status' = "idle" /\ NoActiveResource')]_vars


C3_HandledBeforeNext ==
    [][Len(inbox') < Len(inbox)
        => \A i \in DOMAIN plays : plays[i].phase = "playing"]_vars

\* C3 as amended: queued messages are dispatched in arrival order and one at a
\* time; a dispatch takes the oldest queued message and applies the whole
\* synchronous part of its handling (state, conversation flag, log entry, the
\* call of playAudio up to its first await) in that one step.  The awaited
\* resume and decode of playAudio are not waited for.
C3_InOrder ==
    [][Len(inbox') < Len(inbox)
        => /\ inbox' = Tail(inbox)
           /\ status' = statusAfter(Head(inbox))
           /\ isConversationActive' = activeAfter(Head(inbox))
           /\ debugLog' = debugAfter(Head(inbox))
           /\ Len(plays') = Len(plays) + (IF Head(inbox).audio # "none" THEN 1 ELSE 0)]_vars

\* agent_processing was dispatched while the decode of an earlier agent_speaking
\* is pending and a later message waits in the queue.
C3_Witness ==
    /\ inbox # << >>
    /\ status = "processing"
    /\ \E i \in DOMAIN plays : plays[i].phase # "playing"

\* The playAudio calls whose source is playing.
Playing == {i \in DOMAIN plays : plays[i].phase = "playing"}

\* C4 as claimed: at no time are two audio buffers playing.
C4_OnePlaying == Cardinality(Playing) <= 1

\* C4 as amended: as long as every agent_speaking with audio was dispatched when
\* no earlier playback was pending or playing, at most one buffer is playing.
C4_OnePlayingIfSerial == ~overlapped => Cardinality(Playing) <= 1

\* A buffer is playing and no playAudio call has met an earlier one.
C4_Witness == ~overlapped /\ Cardinality(Playing) = 1 /\ status = "speaking"

\* C5 as claimed: no buffer starts playing after a buffer of a later message
\* has started.
C5_InOrder == \A i \in DOMAIN plays : plays[i].phase = "playing" => ~plays[i].overtaken

\* C5 as amended: as long as every agent_speaking with audio was dispatched when
\* no earlier playback was pending or playing, no buffer starts playing after a
\* buffer of a later message has started.
C5_InOrderIfSerial ==
    ~overlapped => \A i \in DOMAIN plays : plays[i].phase = "playing" => ~plays[i].overtaken

\* A buffer was decoded and started, and no playAudio call has met an earlier
\* one.
C5_Witness ==
    /\ ~overlapped
    /\ debugLog = "AUDIO: Playing MP3 audio"
    /\ \E i \in DOMAIN plays : plays[i].phase = "playing" /\ ~plays[i].overtaken

\* C6: the natural completion of a playback sets the state to listening,
\* whatever the state is.
C6_EndedListening ==
    [][(\E i \in DOMAIN plays : onended(i)) => status' = "listening"]_vars

\* A playback completed after an error message had set the state to error:
\* only onended sets listening without a log entry of its own.
C6_Witness == status = "listening" /\ debugLog = "ERROR: data.error"

Undecodable == [type |-> "agent_speaking", audio |-> "bad"]

\* C8 as claimed: an agent_speaking message with an undecodable payload leaves
\* the state as it was before the message; its handling starts with the
\* dispatch.
C8_StateAsBefore == [][OnMessage(Undecodable) => status' = status]_vars

\* C8 as amended: the dispatch of an agent_speaking message with an undecodable
\* payload sets the state to speaking; the decode failure logs a playback error,
\* changes no state and never sets error.
C8_FailureLogged ==
    [][/\ OnMessage(Undecodable) => status' = "speaking"
       /\ \A i \in DOMAIN plays :
            (plays[i].audio = "bad" /\ playAudioDecoded(i))
                => /\ status' = status
                   /\ isConversationActive' = isConversationActive
                   /\ debugLog' = "AUDIO: Playback error"]_vars

\* The decode of an undecodable payload has failed in state speaking.
C8_Witness == status = "speaking" /\ debugLog = "AUDIO: Playback error" /\ plays = << >>

\* stopConversation has nothing left to release.
NothingHeld ==
    ~isRecordingRef /\ processorRef = 0 /\ mediaStreamRef = 0 /\ audioContextRef = 0

\* C9 as claimed: stopConversation with nothing started, or right after a
\* stopConversation, raises no error and leaves the state idle.
C9_StopIdle ==
    [][(NothingHeld /\ ClickCancel) => (~uncaught' /\ status' = "idle")]_vars

\* C9 as amended: stopConversation raises no error and leaves the conversation
\* state as it was; with nothing started, or right after a stopConversation, it
\* changes nothing but the log.
C9_StopKeepsState ==
    [][ClickCancel
        => /\ ~uncaught'
           /\ status' = status
           /\ NothingHeld'
           /\ NothingHeld => UNCHANGED <<pageVars, captureVars, audioVars, plays, inbox, clockVars>>]_vars

\* stopConversation has run in a state other than idle, and Cancel is still
\* enabled for a second call.
C9_Witness ==
    /\ debugLog = "AUDIO: Conversation stopped"
    /\ status = "listening"
    /\ isConversationActive
    /\ NothingHeld

\* The frames on record that the processor of start p sent.
FramesOf(p) == SelectSeq(frames, LAMBDA f : f[1] = p)

\* C10 as claimed: any two frames written to the channel are at least
\* sendInterval apart, so that a window of length T holds at most
\* ceil(T / sendInterval) frames.
C10_Throttle ==
    \A i, j \in DOMAIN frames :
        i < j => frames[j][2] - frames[i][2] >= sendInterval * (j - i)

\* C10 as amended: the frames written by one capture pipeline (one processor)
\* are at least sendInterval apart, so that a window of length T holds at most
\* ceil(T / sendInterval) frames of that pipeline.
C10_ThrottlePerPipeline ==
    \A p \in DOMAIN starts :
        \A i, j \in DOMAIN FramesOf(p) :
            i < j => FramesOf(p)[j][2] - FramesOf(p)[i][2] >= sendInterval * (j - i)

\* One processor has sent two frames.
C10_Witness == \E p \in DOMAIN starts : Len(FramesOf(p)) >= 2

\* C11: a frame is written to the channel only in a step that starts with the
\* channel open and capture armed, and every earlier frame of the same
\* processor is at least sendInterval older.
C11_SendGate ==
    [][Len(frames') > Len(frames)
        => /\ ws = "OPEN"
           /\ isRecordingRef
           /\ LET f == frames'[Len(frames')]
              IN  \A k \in DOMAIN frames :
                      frames[k][1] = f[1] => f[2] - frames[k][2] >= sendInterval]_vars

\* A processor has just written its second frame, while another processor is
\* connected as well.
C11_Witness ==
    /\ frames # << >>
    /\ LET f == frames[Len(frames)]
       IN  /\ f[1] # 0 /\ f[2] = now
           /\ Len(FramesOf(f[1])) >= 2
           /\ \E j \in DOMAIN starts : j # f[1] /\ starts[j].proc = "on"

\* C12: an audio block that meets a channel that is not open, or that comes
\* less than sendInterval after the last frame of its processor, changes
\* nothing at all: no frame is recorded or kept for later, the conversation
\* state and the log are as before, no exception is raised and capture stays
\* armed.
C12_Dropped ==
    [][\A i \in DOMAIN starts :
          (onaudioprocess(i)
             /\ (ws # "OPEN" \/ now - starts[i].lastSendTime < sendInterval))
          => UNCHANGED vars]_vars

\* An armed processor that has sent a frame gets an audio block within
\* sendInterval of that frame, on a channel that has closed.
C12_Witness ==
    \E i \in DOMAIN starts :
        /\ starts[i].proc = "on" /\ contexts[starts[i].ctx] = "running"
        /\ isRecordingRef
        /\ ws = "CLOSED"
        /\ FramesOf(i) # << >>
        /\ now - starts[i].lastSendTime < sendInterval

\* The starts that hold a piece of a capture pipeline: a live microphone
\* stream or a connected processor.
Pipelines == {i \in DOMAIN starts : starts[i].stream = "live" \/ starts[i].proc = "on"}

\* C13: at most one capture pipeline exists at any time, and a start requested
\* while a conversation is active or while an earlier start is still acquiring
\* the microphone acquires nothing.
C13_OnePipeline ==
    /\ Cardinality(Pipelines) <= 1
    /\ Cardinality({i \in DOMAIN starts : starts[i].phase = "acquiring"}) <= 1

\* C14: stopConversation returns with capture disarmed and the processor,
\* stream and context handles null; capture is armed again only by a
\* startConversation whose getUserMedia resolves and whose processor is set
\* up, and no frame is written to the channel while capture is disarmed.
C14_StopSilences ==
    [][/\ ClickCancel => NothingHeld'
       /\ (~isRecordingRef /\ isRecordingRef')
            => \E i \in DOMAIN starts : getUserMediaResolved(i) /\ starts'[i].proc = "on"
       /\ Len(frames') > Len(frames) => isRecordingRef]_vars

\* stopConversation has run after frames were sent, and a processor that it
\* did not hold is still connected to a running context on an open channel.
C14_Witness ==
    /\ debugLog = "AUDIO: Conversation stopped"
    /\ NothingHeld
    /\ frames # << >>
    /\ ws = "OPEN"
    /\ \E i \in DOMAIN starts : starts[i].proc = "on" /\ contexts[starts[i].ctx] = "running"

\* C15: stopConversation does not cut playback: a source that is playing when
\* it is called is still playing when it returns, and a pending decode is
\* still pending.
C15_StopKeepsPlayback ==
    [][ClickCancel
        => \A i \in DOMAIN plays :
              plays[i].phase \in {"playing", "decoding"}
                  => \E j \in DOMAIN plays' : plays'[j] = plays[i]]_vars

\* C16: the context playAudio plays through, the one audioContextRef holds,
\* is not created, replaced or closed by startConversation, by its
\* continuations or by stopConversation, and no source plays through a
\* context that a capture processor is connected to.
C16_PlaybackOwnsContext ==
    [][/\ (\/ ClickBegin
            \/ ClickCancel
            \/ \E i \in DOMAIN starts : getUserMediaResolved(i) \/ getUserMediaRejected(i))
           => /\ audioContextRef' = audioContextRef
              /\ audioContextRef # 0 => contexts'[audioContextRef] = contexts[audioContextRef]
       /\ \A i \in DOMAIN plays' : \A j \in DOMAIN starts' :
              (plays'[i].phase = "playing" /\ starts'[j].proc = "on")
                  => plays'[i].ctx # starts'[j].ctx]_vars

\* C18: when getUserMedia rejects in startConversation, no capture resource
\* is held afterwards: no open audio context, no stream, no processor.
C18_FailedStartReleases ==
    [][(\E i \in DOMAIN starts : getUserMediaRejected(i))
        => /\ audioContextRef' = 0 /\ mediaStreamRef' = 0 /\ processorRef' = 0
           /\ \A c \in DOMAIN contexts : contexts'[c] = "free"
           /\ Pipelines' = {}]_vars

\* C17: when getUserMedia rejects in startConversation, the state becomes
\* error, and that call neither arms capture nor writes update_config or
\* start_conversation to the channel: isRecordingRef and the processor handle
\* are as before (disarmed, unless another start had armed capture) and
\* nothing is sent.
C17_FailedStart ==
    [][(\E i \in DOMAIN starts : getUserMediaRejected(i))
        => /\ status' = "error"
           /\ isRecordingRef' = isRecordingRef /\ processorRef' = processorRef
           /\ Cardinality(DOMAIN starts \ FreeStarts) = 1 => ~isRecordingRef'
           /\ sent' = sent]_vars

\* getUserMedia was rejected for the first start of the page: the state is
\* error, capture is disarmed, nothing was ever sent and the channel is open.
C17_Witness ==
    /\ status = "error"
    /\ debugLog = "ERROR: Failed to start"
    /\ ~isRecordingRef
    /\ sent = << >>
    /\ ws = "OPEN"

\* C19 as claimed: every startConversation whose getUserMedia resolves puts
\* exactly update_config and then start_conversation on the channel.
C19_ConfigThenStart ==
    [][(\E i \in DOMAIN starts : getUserMediaResolved(i))
        => (ws = "OPEN" /\ sent' = <<"update_config", "start_conversation">>)]_vars

\* C19 as amended: a startConversation whose getUserMedia resolves while the
\* channel is open puts exactly update_config and then start_conversation on
\* the channel, in one step; when the channel is no longer open, both are
\* dropped and nothing is sent.
C19_ConfigThenStartIfOpen ==
    [][\A i \in DOMAIN starts :
          getUserMediaResolved(i)
              => IF ws = "OPEN"
                 THEN sent' = <<"update_config", "start_conversation">>
                 ELSE sent' = sent]_vars

\* A start has completed on an open channel: capture is armed and the two
\* messages of the start are the last ones written to the channel.
C19_Witness ==
    /\ sent = <<"update_config", "start_conversation">>
    /\ debugLog = "AUDIO: Started audio capture"
    /\ isRecordingRef
    /\ ws = "OPEN"

\* The function_call messages without a result, or with a result whose success
\* is absent or false, for the functions with an order effect.
Failed ==
    {m \in Messages :
        /\ m.type = "function_call"
        /\ m.function \in {"store_dietary_preferences", "store_budget_info",
                            "search_restaurants", "confirm_order"}
        /\ ~m.success}

\* C20: the dispatch of a failed function_call appends no transcript entry,
\* makes no addMarker call, leaves the cached summary and the Confirm Order
\* button as they are, leaves the conversation state and the conversation
\* flag as they are, and writes the failure to the debug log.
C20_FailureAbsorbed ==
    [][\A data \in Failed :
          OnMessage(data)
              => /\ UNCHANGED uiVars
                 /\ UNCHANGED <<status, isConversationActive, sent, plays>>
                 /\ debugLog' = FailureText(data.function)]_vars

\* A failed confirm_order was dispatched in state error, after a search and
\* a confirm_order had succeeded: the markers, the summary and the button of
\* the successes are still there.
C20_Witness ==
    /\ debugLog = "AGENT: Failed to confirm order"
    /\ status = "error"
    /\ markerCalls # << >>
    /\ orderSummary = "s1"
    /\ showConfirmOrderButton

\* C21: the dispatch of a successful search_restaurants result with list L
\* makes exactly Len(L) addMarker calls, the k-th with id "restaurant-" +
\* L[k].name and position (L[k].lat, L[k].lng).
C21_MarkerPerEntry ==
    [][\A data \in Messages :
          Listed(data) /\ data.function = "search_restaurants" /\ OnMessage(data)
              => /\ Len(markerCalls') = Len(markerCalls) + Len(data.restaurants)
                 /\ SubSeq(markerCalls', 1, Len(markerCalls)) = markerCalls
                 /\ \A k \in 1..Len(data.restaurants) :
                       LET call == markerCalls'[Len(markerCalls) + k]
                           entry == data.restaurants[k]
                       IN  /\ call.id = "restaurant-" \o entry.name
                           /\ call.position.lat = entry.lat
                           /\ call.position.lng = entry.lng]_vars

\* A search result with two entries has been dispatched: two calls, in list
\* order.
C21_Witness ==
    /\ Len(markerCalls) = 2
    /\ markerCalls[1].id = "restaurant-r2" /\ markerCalls[1].position = [lat |-> 1, lng |-> 2]
    /\ markerCalls[2].id = "restaurant-r1" /\ markerCalls[2].position = [lat |-> 2, lng |-> 1]
    /\ markerCalls[1].options.animation = "DROP"
    /\ markerCalls[2].options.animation = "DROP"

\* The markers the store holds: id, position, options and map of each.
Entries(store) ==
    {[id |-> id, marker |-> store.objs[store.ref[id]]] :
        id \in {i \in MarkerIds : store.ref[i] # 0}}

\* The last call of a sequence of addMarker calls that names the id.
LastFor(calls, id) ==
    calls[CHOOSE k \in 1..Len(calls) :
            /\ calls[k].id = id
            /\ \A j \in (k + 1)..Len(calls) : calls[j].id # id]

\* The calls `calls`, run against the store, left one marker for each of their
\* ids: the marker the store held for the id before if it held one, a new one
\* otherwise, at the position and with the options of the last call for it.
Upserted(calls) ==
    /\ \A k \in 1..Len(calls) :
          LET id == calls[k].id
              last == LastFor(calls, id)
              marker == markerObjs'[markersRef'[id]]
          IN  /\ markersRef'[id] # 0
              /\ markersRef[id] # 0 => markersRef'[id] = markersRef[id]
              /\ marker.position = last.position
              /\ \A o \in DOMAIN last.options : marker.options[o] = last.options[o]
              /\ marker.map = mapRef'
    /\ Len(markerObjs') = Len(markerObjs)
          + Cardinality({calls[k].id : k \in 1..Len(calls)}
                           \ {id \in MarkerIds : markersRef[id] # 0})

\* C22: every marker on a map is held by the store under exactly one id; the
\* addMarker calls that a dispatch makes, and the queued calls that setMap
\* runs, update the marker of an id the store holds and construct one marker
\* for an id it does not hold; running the calls of a result a second time
\* leaves the same markers as running them once.
C22_Upsert ==
    /\ [](\A k \in 1..Len(markerObjs) :
            markerObjs[k].map # 0
                => Cardinality({id \in MarkerIds : markersRef[id] = k}) = 1)
    /\ [][/\ mapRef # 0 /\ markerCalls' # markerCalls
               => LET calls == SubSeq(markerCalls', Len(markerCalls) + 1,
                                      Len(markerCalls'))
                      once == [ref |-> markersRef', objs |-> markerObjs',
                               pending |-> pendingRef', info |-> infoWindowsRef']
                  IN  /\ Upserted(calls)
                      /\ Entries(addEach(once, mapRef', calls)) = Entries(once)
          /\ \A m \in Maps : setMap(m) => Upserted(pendingRef)]_vars

\* A search result put a marker for r1 on the map, and a later pick result
\* with r1 at another position moved that marker and gave it the icon: two
\* calls, one marker.
C22_Witness ==
    /\ mapRef # 0
    /\ Len(markerCalls) = 2
    /\ markerCalls[1].id = "restaurant-r1" /\ markerCalls[1].position = [lat |-> 1, lng |-> 2]
    /\ markerCalls[2].id = "restaurant-r1" /\ markerCalls[2].position = [lat |-> 2, lng |-> 1]
    /\ Len(markerObjs) = 1
    /\ markersRef["restaurant-r1"] = 1
    /\ markerObjs[1].position = [lat |-> 2, lng |-> 1]
    /\ markerObjs[1].options.animation = "BOUNCE"
    /\ markerObjs[1].options.icon = "markerIcon"

\* The summary is cached and the button shown by a successful confirm_order,
\* and the cached summary is changed by nothing else.
SummaryCached ==
    /\ \A data \in Confirming :
          data.success /\ OnMessage(data)
              => orderSummary' = data.summary /\ showConfirmOrderButton'
    /\ orderSummary' # orderSummary
          => \E data \in Confirming : data.success /\ OnMessage(data)

\* C23 as stated: every click on Confirm Order sends one confirmed_order
\* message with the cached summary.
C23_ConfirmSends ==
    [][/\ SummaryCached
       /\ ClickConfirm => sent' = <<ConfirmedOrder(orderSummary)>>]_vars

\* C23: a successful confirm_order caches its summary and shows the button;
\* nothing else changes the cached summary; a click on Confirm Order while the
\* channel is open sends one confirmed_order message with the cached summary,
\* a click while it is closed sends nothing.
C23_ConfirmSendsIfOpen ==
    [][/\ SummaryCached
       /\ ClickConfirm
             => /\ ws = "OPEN" => sent' = <<ConfirmedOrder(orderSummary)>>
                /\ ws # "OPEN" => sent' = sent]_vars

\* Two clicks on Confirm Order; the second one sent the summary s2 on the open
\* channel.
C23_Witness ==
    /\ ws = "OPEN"
    /\ Len(messages) = 2
    /\ messages[2] = <<"system", "ORDER SUBMITTED.">>
    /\ orderSummary = "s2"
    /\ sent = <<"confirmed_order:s2">>

\* ws.onmessage runs for the message, at once or from the queue.
Handled(data) ==
    \/ OnMessage(data)
    \/ inbox # << >> /\ Head(inbox) = data /\ Dispatch

\* C24: every user_speech appends exactly one user entry with its transcript,
\* every agent_response exactly one agent entry with its response, and the
\* other messages of a turn append nothing; when the audio of a full turn that
\* started in a pristine idle state has played to its end, the state is
\* listening and the transcript is one user entry followed by one agent entry.
C24_FullTurn ==
    [][/\ \A data \in Messages :
             Handled(data)
                 => /\ data.type = "user_speech"
                         => messages' = Append(messages, <<"user", data.transcript>>)
                    /\ data.type = "agent_response"
                         => messages' = Append(messages, <<"agent", data.response>>)
                    /\ data.type \in {"conversation_started", "speech_started",
                                      "agent_processing", "agent_speaking"}
                         => messages' = messages
       /\ (\E i \in DOMAIN plays : onended(i))
             => /\ status' = "listening"
                /\ Len(messages') = 2
                /\ messages'[1][1] = "user"
                /\ messages'[2][1] = "agent"]_vars

\* The turn with transcript t1 and response t2 is over: its audio was started
\* and has ended.
C24_Witness ==
    /\ status = "listening"
    /\ inbox = << >> /\ plays = << >>
    /\ debugLog = "AUDIO: Playing MP3 audio"
    /\ messages = <<<<"user", "t1">>, <<"agent", "t2">>>>

\* C25: whatever the conversation state, the dispatch of conversation_started
\* or speech_started leaves it listening, of agent_processing processing, of
\* agent_speaking speaking (with or without audio), of conversation_stopped
\* idle and of error error.
C25_TargetState ==
    [][\A data \in StateSetting :
          OnMessage(data)
              => /\ data.type \in {"conversation_started", "speech_started"}
                      => status' = "listening"
                 /\ data.type = "agent_processing" => status' = "processing"
                 /\ data.type = "agent_speaking" => status' = "speaking"
                 /\ data.type = "conversation_stopped" => status' = "idle"
                 /\ data.type = "error" => status' = "error"]_vars

\* An agent_speaking without audio was dispatched before any conversation was
\* started: the state is speaking, no audio context was ever created, and the
\* conversation flag is still off.
C25_Witness ==
    /\ status = "speaking"
    /\ audioContextRef = 0 /\ plays = << >>
    /\ \A c \in DOMAIN contexts : contexts[c] = "free"
    /\ ~isConversationActive

\* C26: the dispatch of connected, user_speech, agent_response,
\* interim_transcript, approval_request or function_call, succeeded or failed,
\* leaves the conversation state as it is, in every state; it changes nothing
\* of the page but the transcript, the map, the order summary and its button
\* and the debug log.
C26_StateUntouched ==
    [][\A data \in Messages :
          /\ data.type \in {"connected", "user_speech", "agent_response",
                            "interim_transcript", "approval_request", "function_call"}
          /\ OnMessage(data)
          => /\ status' = status
             /\ UNCHANGED <<pageVars, captureVars, audioVars, plays, overlapped, uncaught,
                            sent, inbox, clockVars>>]_vars

\* An agent_response was dispatched in state processing: the state is still
\* processing.
C26_Witness ==
    /\ status = "processing"
    /\ debugLog = "AGENT: t1"
    /\ messages = <<<<"agent", "t1">>>>

\* C27: stopConversation, the handling of an audio block, a click on Confirm
\* Order, the addMarker calls of a dispatched result, setMap, removeMarker and
\* clearMarkers leave the conversation state as it is.
C27_StateReadOnly ==
    [][status' # status
          => ~(\/ ClickCancel
               \/ \E i \in DOMAIN starts : onaudioprocess(i)
               \/ ClickConfirm
               \/ \E data \in Searches : OnMessage(data)
               \/ \E m \in Maps : setMap(m)
               \/ \E id \in MarkerIds : removeMarker(id)
               \/ clearMarkers)]_vars

\* A conversation was stopped by the user while the agent was processing,
\* after a frame had been sent: the state is still processing.
C27_Witness ==
    /\ status = "processing"
    /\ debugLog = "AUDIO: Conversation stopped"
    /\ frames # << >>
    /\ ~isRecordingRef

C29_StateDomain == status = "idle" /\ [](status \in ConversationState)

\* The state error, entered by the catch block of a start, after the state
\* had been speaking: a playback is still in flight.
C29_Witness ==
    /\ status = "error"
    /\ debugLog = "ERROR: Failed to start"
    /\ plays # << >>

\* C30: an audio frame is written to the channel only while the conversation
\* state is neither idle nor error.
C30_StateGated ==
    [][\A i \in DOMAIN starts :
          onaudioprocess(i) /\ frames' # frames => status \notin {"idle", "error"}]_vars

\* The sample `out` is the number n/d scaled by k with its fraction dropped.
ScaledBy(out, x, k) ==
    LET exact == x[1] * k
    IN  IF exact < 0
        THEN out * x[2] >= exact /\ out * x[2] - exact < x[2]
        ELSE out * x[2] <= exact /\ exact - out * x[2] < x[2]

\* C31: convertFloatToPcm returns a frame of the length of its input whose
\* samples lie in [-32768, 32767]; an input at or below -1 gives -32768, one at
\* or above 1 gives 32767, a negative one in between is scaled by 32768, a
\* non-negative one by 32767 (0 gives 0), and the mapping is monotone
\* non-decreasing.
C31_PcmRange ==
    [][Len(frames') > Len(frames)
          => /\ Len(pcmData') = Len(inputBuffer)
             /\ \A j \in 1..Len(inputBuffer) :
                    LET x == inputBuffer[j]
                        out == pcmData'[j]
                    IN  /\ out \in -32768..32767
                        /\ x # NaN /\ ~Less(<<-1, 1>>, x) => out = -32768
                        /\ x # NaN /\ ~Less(x, <<1, 1>>) => out = 32767
                        /\ Less(<<-1, 1>>, x) /\ Less(x, <<0, 1>>)
                               => ScaledBy(out, x, 32768)
                        /\ ~Less(x, <<0, 1>>) /\ Less(x, <<1, 1>>)
                               => ScaledBy(out, x, 32767)
                        /\ x = Zero => out = 0
             /\ \A j, k \in 1..Len(inputBuffer) :
                    /\ inputBuffer[j] # NaN
                    /\ inputBuffer[k] # NaN
                    /\ ~Less(inputBuffer[k], inputBuffer[j])
                    => pcmData'[j] <= pcmData'[k]]_vars

\* The block <<-1/3, 1/4>> was written as <<-10922, 8191>>: both samples
\* scaled, by 32768 and by 32767, and their fractions dropped.
C31_Witness ==
    /\ frames # << >>
    /\ inputBuffer = << <<-4, Den>>, <<3, Den>> >>
    /\ pcmData = <<-10922, 8191>>

\* C32: addMarker called while no map is set appends the request, with its
\* id, to the pending list and touches no marker; setMap empties the pending
\* list and leaves, for each id queued, one marker on the new map at the
\* position of the last request queued for the id, having constructed one
\* marker per distinct id.
C32_PendingApplied ==
    [][/\ mapRef = 0 /\ markerCalls' # markerCalls
             => /\ pendingRef' = Append(pendingRef, markerCalls'[Len(markerCalls')])
                /\ UNCHANGED <<mapRef, markersRef, markerObjs, infoWindowsRef>>
       /\ mapRef' # mapRef
             => /\ pendingRef' = << >>
                /\ \A k \in 1..Len(pendingRef) :
                      LET id == pendingRef[k].id
                          last == LastFor(pendingRef, id)
                      IN  /\ markersRef'[id] # 0
                          /\ markerObjs'[markersRef'[id]].position = last.position
                          /\ markerObjs'[markersRef'[id]].map = mapRef'
                          /\ infoWindowContent(last) # ""
                                => infoWindowsRef'[id] = infoWindowContent(last)
                /\ Len(markerObjs') - Len(markerObjs)
                      = Cardinality({pendingRef[k].id : k \in 1..Len(pendingRef)}
                                       \ {id \in MarkerIds : markersRef[id] # 0})]_vars

\* Two requests for r1 at different positions were queued and the map was
\* then set: one marker, at the position of the second request.
C32_Witness ==
    /\ mapRef # 0
    /\ Len(markerCalls) = 2
    /\ markerCalls[1].id = "restaurant-r1" /\ markerCalls[1].position = [lat |-> 1, lng |-> 2]
    /\ markerCalls[2].id = "restaurant-r1" /\ markerCalls[2].position = [lat |-> 2, lng |-> 1]
    /\ pendingRef = << >>
    /\ Len(markerObjs) = 1
    /\ markersRef["restaurant-r1"] = 1
    /\ markerObjs[1].position = [lat |-> 2, lng |-> 1]
    /\ markerObjs[1].map = mapRef

\* C33: removeMarker(id) takes the marker of the id off its map and out of
\* the store, drops its info window and every queued request of the id, and
\* leaves the markers, info windows and queued requests of the other ids as
\* they were; a marker that setMap stores for an id comes from a request of
\* that id still queued, so a request removed from the queue is never
\* materialised: from the removal of an id until the next addMarker call that
\* names it, the provider holds no marker, info window or request of the id.
C33_RemoveMarker ==
  /\ [](\A id \in removed : ~Holds(id))
  /\
    [][/\ \A id \in MarkerIds :
             removeMarker(id)
                 => /\ markersRef'[id] = 0
                    /\ markersRef[id] # 0 => markerObjs'[markersRef[id]].map = 0
                    /\ infoWindowsRef'[id] = ""
                    /\ \A k \in 1..Len(pendingRef') : pendingRef'[k].id # id
                    /\ pendingRef' = SelectSeq(pendingRef, LAMBDA job : job.id # id)
                    /\ \A other \in MarkerIds \ {id} :
                          /\ markersRef'[other] = markersRef[other]
                          /\ infoWindowsRef'[other] = infoWindowsRef[other]
                    /\ Len(markerObjs') = Len(markerObjs)
                    /\ \A k \in 1..Len(markerObjs) :
                          k # markersRef[id] => markerObjs'[k] = markerObjs[k]
                    /\ mapRef' = mapRef
       /\ \A id \in MarkerIds :
             mapRef' # mapRef /\ markersRef[id] = 0 /\ markersRef'[id] # 0
                 => \E k \in 1..Len(pendingRef) : pendingRef[k].id = id]_vars

\* Requests for r2 and then for r1 were queued, the one for r1 was removed
\* from the queue, and the map was set: r2 has its marker, r1 has none, and no
\* marker was ever constructed for r1.
C33_Witness ==
    /\ mapRef # 0
    /\ Len(markerCalls) = 2
    /\ markerCalls[1].id = "restaurant-r2"
    /\ markerCalls[2].id = "restaurant-r1"
    /\ Len(markerObjs) = 1
    /\ markersRef["restaurant-r2"] = 1
    /\ markerObjs[1].map = mapRef
    /\ markersRef["restaurant-r1"] = 0
    /\ removed = {"restaurant-r1"}
    /\ pendingRef = << >>

\* C34: in every state reached by setMap, addMarker, removeMarker and
\* clearMarkers, an id that has an info window has a marker; and from a
\* clearMarkers call until the next addMarker call the marker store, the
\* info-window store and the pending list are empty.
C34_WindowsHaveMarkers ==
    /\ \A id \in MarkerIds : infoWindowsRef[id] # "" => markersRef[id] # 0
    /\ removed = MarkerIds
          => /\ \A id \in MarkerIds : markersRef[id] = 0 /\ infoWindowsRef[id] = ""
             /\ pendingRef = << >>
             /\ \A k \in 1..Len(markerObjs) : markerObjs[k].map = 0

\* Markers with info windows were put on the map for r1 and r2 and
\* clearMarkers was called: both marker objects are off the map and the
\* stores are empty.
C34_Witness ==
    /\ mapRef # 0
    /\ Len(markerCalls) = 2
    /\ infoWindowContent(markerCalls[1]) = "w1"
    /\ infoWindowContent(markerCalls[2]) = "w1"
    /\ Len(markerObjs) = 2
    /\ removed = MarkerIds
    /\ \A id \in MarkerIds : markersRef[id] = 0 /\ infoWindowsRef[id] = ""

\* C35: the step that connects the processor of a start also arms capture
\* and, when the channel is open, hands update_config and start_conversation
\* to it, in this order, and writes no frame; a frame is written by a
\* processor connected in an earlier step, on an open channel; and a closed
\* channel never opens again.  So no frame of a pipeline precedes the
\* start_conversation of its start.
C35_StartAtomic ==
    [][/\ \A i \in DOMAIN starts :
             starts[i].proc # "on" /\ starts'[i].proc = "on"
                 => /\ starts[i].phase = "acquiring" /\ starts'[i].phase = "started"
                    /\ isRecordingRef'
                    /\ frames' = frames
                    /\ \A k \in 1..Len(frames) : frames[k][1] # i
                    /\ ws' = ws
                    /\ ws # "CONNECTING"
                    /\ ws = "OPEN" => sent' = <<"update_config", "start_conversation">>
       /\ Len(frames') > Len(frames)
             => LET i == frames'[Len(frames')][1]
                IN  /\ ws = "OPEN"
                    /\ starts[i].proc = "on"
                    /\ starts[i].phase = "started"
       /\ ws = "CLOSED" => ws' = "CLOSED"]_vars

\* The first frame of a pipeline is on the channel, and the last messages
\* handed to the channel are the update_config and start_conversation of its
\* start.
C35_Witness ==
    /\ Len(frames) = 1
    /\ frames[1][1] # 0
    /\ starts[frames[1][1]].phase = "started"
    /\ sent = <<"update_config", "start_conversation">>
    /\ debugLog = "AUDIO: Started audio capture"

\* C36: the Confirm Order button is hidden initially and becomes shown only
\* in the dispatch of a successful confirm_order result; whenever the
\* messages handed to the channel last hold a confirmed_order, the button is
\* shown and the cached summary is one that such a result delivered.
C36_ConfirmAfterResult ==
    /\ ~showConfirmOrderButton
    /\ [](\A k \in 1..Len(sent) :
            sent[k] \in {ConfirmedOrder(s) : s \in Summaries \cup {""}}
                => showConfirmOrderButton /\ orderSummary \in Summaries)
    /\ [][~showConfirmOrderButton /\ showConfirmOrderButton'
             => \E data \in Confirming : data.success /\ OnMessage(data)]_vars

\* A successful confirm_order with the summary s1 showed the button, and one
\* click sent that summary on the open channel.
C36_Witness ==
    /\ showConfirmOrderButton
    /\ orderSummary = "s1"
    /\ sent = <<"confirmed_order:s1">>
    /\ messages = << <<"system", "ORDER SUBMITTED.">> >>

\* C37: a step that appends the entry 'ORDER SUBMITTED.' to the transcript
\* hands exactly one confirmed_order message, with the cached summary, to an
\* open channel.
C37_SubmittedWasSent ==
    [][/\ Len(messages') = Len(messages) + 1
       /\ messages'[Len(messages')] = <<"system", "ORDER SUBMITTED.">>
       => /\ ws = "OPEN"
          /\ sent' = <<ConfirmedOrder(orderSummary)>>]_vars

\* C38: the step in which the channel closes sets the state to idle and the
\* connected flag to false, and leaves the conversation-active flag, the
\* armed flag, the processor, the stream, the audio context and the frames
\* written as they were; a frame is written only in a step that starts and
\* ends with the channel open.
C38_CloseKeepsCapture ==
    [][/\ ws # "CLOSED" /\ ws' = "CLOSED"
             => /\ status' = "idle"
                /\ ~isConnected'
                /\ UNCHANGED <<isConversationActive, isRecordingRef, processorRef,
                               mediaStreamRef, audioContextRef, starts, contexts,
                               frames, sent>>
       /\ Len(frames') > Len(frames) => ws = "OPEN" /\ ws' = "OPEN"]_vars

\* The channel closed under a confirmed conversation that had written a
\* frame: the state is idle, and the conversation is still flagged active
\* with capture armed and the processor, stream and context in place.
C38_Witness ==
    /\ ws = "CLOSED"
    /\ debugLog = "SOCKET: Disconnected from server"
    /\ status = "idle"
    /\ ~isConnected
    /\ isConversationActive
    /\ isRecordingRef
    /\ processorRef # 0 /\ mediaStreamRef # 0 /\ audioContextRef # 0
    /\ starts[processorRef].proc = "on"
    /\ frames # << >>

\* C39: startConversation called while the connected flag is off or no
\* microphone is selected changes nothing: no audio context is created, no
\* stream is requested, capture is not armed, nothing is sent, and the
\* conversation state and the log are as before.
C39_StartGuard ==
    [][(~isConnected \/ ~selectedMicrophone) /\ startConversation
          => /\ UNCHANGED <<audioContextRef, contexts, starts, mediaStreamRef,
                            processorRef, isRecordingRef>>
             /\ UNCHANGED <<sent, status, debugLog, uncaught, isConversationActive>>]_vars

\* The channel closed after a start that armed capture: the connected flag
\* is off with a microphone selected, a start slot and an audio context are
\* free, and the resources of the earlier start are in place; a call of
\* startConversation here returns at its guard.
C39_Witness ==
    /\ ~isConnected
    /\ selectedMicrophone
    /\ ws = "CLOSED"
    /\ FreeStarts # {} /\ FreeCtx # {}
    /\ isRecordingRef
    /\ audioContextRef # 0

====
